---- MODULE Spec2Model ----
(***************************************************************************)
(* Guarded query-and-analysis engine of data-mcp: the Query Guard, the     *)
(* Code Guard, row truncation, the per-environment connection pools and    *)
(* the tool handlers (query, analyze, dataInsights, dataReport,            *)
(* setEnvironment, analyzeJsonData).  Texts are sequences of one-character *)
(* strings, so that trim, toLowerCase, startsWith, includes and            *)
(* RegExp.test are computed on characters as the JavaScript does.          *)
(***************************************************************************)
EXTENDS Integers, Sequences, FiniteSets, TLC

\* ------------------------------------------------------------------
\* Bounds of the model
\* ------------------------------------------------------------------
MaxFrags == 3
MaxCodeFrags == 2
MaxRows == 3
MaxTimers == 2
MaxCycles == 3
MaxDbCalls == 2
MaxDescs == 1

\* undefined / null / not yet set.
None == "none"

\* ------------------------------------------------------------------
\* JavaScript String primitives
\* ------------------------------------------------------------------
UpperChars == <<"A","B","C","D","E","F","G","H","I","J","K","L","M","N","O","P","Q","R","S","T","U","V","W","X","Y","Z">>
LowerChars == <<"a","b","c","d","e","f","g","h","i","j","k","l","m","n","o","p","q","r","s","t","u","v","w","x","y","z">>

\* White space and line terminators removed by String.prototype.trim and
\* matched by the RegExp class \s.
WhiteSpace == {" ", "\t", "\n"}

toLowerCaseChar(c) ==
    IF \E i \in 1..Len(UpperChars) : UpperChars[i] = c
    THEN LowerChars[CHOOSE i \in 1..Len(UpperChars) : UpperChars[i] = c]
    ELSE c

toLowerCase(s) == [i \in 1..Len(s) |-> toLowerCaseChar(s[i])]

RECURSIVE trimStart(_)
trimStart(s) ==
    IF s # <<>> /\ Head(s) \in WhiteSpace THEN trimStart(Tail(s)) ELSE s

RECURSIVE trimEnd(_)
trimEnd(s) ==
    IF s # <<>> /\ s[Len(s)] \in WhiteSpace
    THEN trimEnd(SubSeq(s, 1, Len(s) - 1))
    ELSE s

trim(s) == trimEnd(trimStart(s))

startsWith(s, p) == Len(s) >= Len(p) /\ SubSeq(s, 1, Len(p)) = p

includes(s, p) ==
    \E i \in 1..(Len(s) - Len(p) + 1) : SubSeq(s, i, i + Len(p) - 1) = p

\* ------------------------------------------------------------------
\* Query Guard
\* ------------------------------------------------------------------
isReadOnlyQueryNoTrim(query) ==
    LET trimmedQuery == toLowerCase(query)
    IN  \/ startsWith(trimmedQuery, <<"s","e","l","e","c","t">>)
        \/ startsWith(trimmedQuery, <<"w","i","t","h">>)
        \/ startsWith(trimmedQuery, <<"e","x","p","l","a","i","n">>)

isReadOnlyQuery(query) ==
    LET trimmedQuery == toLowerCase(trim(query))
    IN  \/ startsWith(trimmedQuery, <<"s","e","l","e","c","t">>)
        \/ startsWith(trimmedQuery, <<"w","i","t","h">>)
        \/ startsWith(trimmedQuery, <<"e","x","p","l","a","i","n">>)

hasLimitClause(query) ==
    LET trimmedQuery == toLowerCase(trim(query))
    IN  includes(trimmedQuery, <<"l","i","m","i","t">>)

\* The verdict of the two guard checks in the order every handler applies
\* them.
QueryGuard(query) ==
    IF ~isReadOnlyQuery(query) THEN "NotReadOnly"
    ELSE IF ~hasLimitClause(query) THEN "MissingBound"
    ELSE "Accepted"

\* ------------------------------------------------------------------
\* Code Guard
\* ------------------------------------------------------------------
\* A regular expression of the denylist is a sequence of character
\* classes: a literal (or escaped) character is the class of that one
\* character and \s is WhiteSpace.  None of the patterns carries a flag,
\* so test() keeps no lastIndex and matches at any position.  \s+ is one
\* class: test() asks only whether a match exists, and a match of \s+
\* exists exactly when a match of \s does.
Lit(s) == [i \in 1..Len(s) |-> {s[i]}]

dangerousPatterns == <<
    [pattern |-> Lit(<<"p","r","o","c","e","s","s",".","e","n","v">>),    name |-> "process.env access"],
    [pattern |-> Lit(<<"r","e","q","u","i","r","e","(">>),       name |-> "require() function"],
    [pattern |-> Lit(<<"i","m","p","o","r","t">>) \o <<WhiteSpace>>, name |-> "import statements"],
    [pattern |-> Lit(<<"e","v","a","l","(">>),          name |-> "eval() function"],
    [pattern |-> Lit(<<"F","u","n","c","t","i","o","n","(">>),      name |-> "Function constructor"],
    [pattern |-> Lit(<<"s","e","t","T","i","m","e","o","u","t","(">>),    name |-> "setTimeout() function"],
    [pattern |-> Lit(<<"s","e","t","I","n","t","e","r","v","a","l","(">>),   name |-> "setInterval() function"],
    [pattern |-> Lit(<<"g","l","o","b","a","l",".">>),        name |-> "global object access"],
    [pattern |-> Lit(<<"w","i","n","d","o","w",".">>),        name |-> "window object access"],
    [pattern |-> Lit(<<"d","o","c","u","m","e","n","t",".">>),      name |-> "document object access"],
    [pattern |-> Lit(<<"f","e","t","c","h","(">>),         name |-> "fetch() function"],
    [pattern |-> Lit(<<"X","M","L","H","t","t","p","R","e","q","u","e","s","t">>), name |-> "XMLHttpRequest"],
    [pattern |-> Lit(<<"h","t","t","p">>),           name |-> "http is not allowed"],
    [pattern |-> Lit(<<".","q","u","e","r","y","(">>),        name |-> "query() method calls"],
    [pattern |-> Lit(<<".","c","o","n","n","e","c","t","(">>),      name |-> "connect() method calls"],
    [pattern |-> Lit(<<".","p","o","o","l">>),          name |-> "pool property access"],
    [pattern |-> Lit(<<"p","g",".">>),            name |-> "pg module access"],
    [pattern |-> Lit(<<"p","o","s","t","g","r","e","s">>),       name |-> "postgres references"],
    [pattern |-> Lit(<<"d","a","t","a","b","a","s","e">>),       name |-> "database references"],
    [pattern |-> Lit(<<"r","e","a","d","C","S","V">>),        name |-> "readCSV is not allowed"],
    [pattern |-> Lit(<<"p","a","s","s","w","o","r","d">>),       name |-> "password is not allowed"] >>

\* RegExp.prototype.test anchored at the start of the text only.
RegExpTestAnchored(pattern, code) ==
    /\ Len(code) >= Len(pattern)
    /\ \A j \in 1..Len(pattern) : code[j] \in pattern[j]

\* RegExp.prototype.test for a flagless pattern.
RegExpTest(pattern, code) ==
    \E i \in 1..(Len(code) - Len(pattern) + 1) :
        \A j \in 1..Len(pattern) : code[i + j - 1] \in pattern[j]

\* The for..of loop over dangerousPatterns from entry k on: the first
\* pattern that tests true ends the scan.
RECURSIVE scanPatterns(_, _)
scanPatterns(code, k) ==
    IF k > Len(dangerousPatterns) THEN [safe |-> TRUE, blockedPattern |-> None]
    ELSE IF RegExpTest(dangerousPatterns[k].pattern, code)
         THEN [safe |-> FALSE, blockedPattern |-> dangerousPatterns[k].name]
         ELSE scanPatterns(code, k + 1)

\* The scan reporting the last matching pattern instead of the first.
RECURSIVE scanPatternsLast(_, _)
scanPatternsLast(code, k) ==
    IF k < 1 THEN [safe |-> TRUE, blockedPattern |-> None]
    ELSE IF RegExpTest(dangerousPatterns[k].pattern, code)
         THEN [safe |-> FALSE, blockedPattern |-> dangerousPatterns[k].name]
         ELSE scanPatternsLast(code, k - 1)

isSafeAnalysisCodeLast(code) == scanPatternsLast(code, Len(dangerousPatterns))

isSafeAnalysisCode(code) == scanPatterns(code, 1)

\* ------------------------------------------------------------------
\* Row truncation
\* ------------------------------------------------------------------
HardCeiling == 5000

Min(a, b) == IF a <= b THEN a ELSE b
Max(a, b) == IF a >= b THEN a ELSE b

\* Array.prototype.slice(begin, end) for integer arguments: a negative
\* index counts from the end of the array.
sliceIndex(len, k) == IF k < 0 THEN Max(len + k, 0) ELSE Min(k, len)

\* slice with its end index one too far.
sliceOffByOne(arr, begin, end) ==
    SubSeq(arr, sliceIndex(Len(arr), begin) + 1, sliceIndex(Len(arr), end + 1))

slice(arr, begin, end) ==
    SubSeq(arr, sliceIndex(Len(arr), begin) + 1, sliceIndex(Len(arr), end))

\* The rows a store answers with, identified by their position.
Rows(n) == [i \in 1..n |-> i]

\* ------------------------------------------------------------------
\* State
\* ------------------------------------------------------------------
VARIABLES
    currentPool,  \* Database.currentPool
    timers,       \* pending revert-to-default timers (setTimeout, never cleared)
    envOut,       \* what the setEnvironment handler last returned
    leased,       \* per pool: clients connected and not yet released
    pc,           \* where the tool call in flight is suspended
    tool,         \* the tool called
    query,        \* its query argument (dataInsights: the generated query)
    limit,        \* its limit argument
    code,         \* its code argument (analyze)
    client,       \* the pool its connect() was issued on
    stmt,         \* the text it passed to client.query
    stored,       \* result.rows as the store answered
    nConnect,     \* pool.connect() calls it made
    nQuery,       \* client.query() calls it made
    nRelease,     \* client.release() calls it made
    out,          \* what the handler returned
    gText,        \* Query Guard alone: its input
    gVerdict,     \* Query Guard alone: its verdict
    cCode,        \* Code Guard alone: its input
    cVerdict,     \* Code Guard alone: its verdict
    sRows,        \* truncation alone: the rows
    sCap,         \* truncation alone: the first cap
    sCap2,        \* truncation alone: the second cap
    sOnce,        \* truncation alone: rows truncated with sCap
    sTwice,       \* truncation alone: sOnce truncated with sCap2
    sPc,          \* truncation alone: "start", "once", "twice"
    jPc,          \* analyzeJsonData: where the call is suspended
    jMaxCycles,   \* analyzeJsonData: its maxCycles argument
    jInitial,     \* analyzeJsonData: initialAnalyses.length
    jCycles,      \* analyzeJsonData: cycles.length (the loop's cycle index)
    jSource,      \* analyzeJsonData: where this cycle's descriptions come from
    jTodo,        \* analyzeJsonData: descriptions of this cycle not yet run
    jCode,        \* analyzeJsonData: the code last generated
    jRan,         \* analyzeJsonData: whether new Function's body ran it
    jResult,      \* analyzeJsonData: what executeDataFrameCode last returned
    jReports,     \* analyzeJsonData: generateFinalReport calls
    jOut,         \* analyzeJsonData: what the handler returned
    ended,        \* the pools whose end() has been called
    shutdown      \* the process: "running", "ending" (awaiting end()), "exited"

callVars == <<pc, tool, query, limit, code, client, stmt, stored, nConnect,
              nQuery, nRelease, out>>
envVars == <<currentPool, timers, envOut>>
mainVars == <<currentPool, timers, envOut, leased, pc, tool, query, limit, code,
              client, stmt, stored, nConnect, nQuery, nRelease, out>>
guardVars == <<gText, gVerdict>>
codeVars == <<cCode, cVerdict>>
shapeVars == <<sRows, sCap, sCap2, sOnce, sTwice, sPc>>
jsonVars == <<jPc, jMaxCycles, jInitial, jCycles, jSource, jTodo, jCode, jRan,
              jResult, jReports, jOut>>
procVars == <<ended, shutdown>>
vars == <<mainVars, guardVars, codeVars, shapeVars, jsonVars, procVars>>


\* All concatenations of at most n texts of F.
RECURSIVE Concats(_, _)
Concats(F, n) ==
    IF n = 0 THEN {<<>>}
    ELSE LET prev == Concats(F, n - 1)
         IN  prev \cup {p \o f : p \in prev, f \in F}

GuardUnused == gText = <<>> /\ gVerdict = None
NoVerdict == [safe |-> FALSE, blockedPattern |-> None]
CodeUnused == cCode = <<>> /\ cVerdict = NoVerdict
ShapeUnused ==
    /\ sRows = <<>> /\ sCap = 0 /\ sCap2 = 0
    /\ sOnce = <<>> /\ sTwice = <<>> /\ sPc = None
NoResult == [kind |-> None, values |-> <<>>]
JsonIdle ==
    /\ jPc = "idle" /\ jMaxCycles = 0 /\ jInitial = 0 /\ jCycles = 0
    /\ jSource = None /\ jTodo = 0 /\ jCode = <<>> /\ jRan = FALSE
    /\ jResult = NoResult /\ jReports = 0 /\ jOut = None

\* ------------------------------------------------------------------
\* The Query Guard on its own
\* ------------------------------------------------------------------
GuardFragments == {
    <<" ">>, <<"\n">>, <<"s","e","l","e","c","t">>, <<"S","E","L","E","C","T">>, <<"W","i","t","h">>, <<"e","x","p","l","a","i","n">>,
    <<"d","e","l","e","t","e">>, <<"l","i","m","i","t">>, <<"L","i","M","i","T">>, <<"l","i","m">>, <<"i","t">>, <<"'","l","i","m","i","t","'">>, <<"x">> }

GuardTexts == Concats(GuardFragments, MaxFrags)

GuardClassify ==
    /\ gVerdict = None
    /\ gVerdict' = QueryGuard(gText)
    /\ UNCHANGED <<gText, mainVars, codeVars, shapeVars, jsonVars, procVars>>

\* ------------------------------------------------------------------
\* The Code Guard on its own
\* ------------------------------------------------------------------
CodeFragments == {
    <<"r","e","t","u","r","n"," ","d","a","t","a",".","l","e","n","g","t","h",";">>, <<" ">>, <<"\n">>, <<"/","/">>,
    <<"p","r","o","c","e","s","s",".","e","n","v">>, <<"p","r","o","c","e","s","s","X","e","n","v">>, <<"r","e","q","u","i","r","e","(">>, <<"i","m","p","o","r","t">>, <<"e","v","a","l","(">>,
    <<"F","u","n","c","t","i","o","n","(">>, <<"s","e","t","T","i","m","e","o","u","t","(">>, <<"s","e","t","I","n","t","e","r","v","a","l","(">>, <<"g","l","o","b","a","l",".">>,
    <<"w","i","n","d","o","w",".">>, <<"d","o","c","u","m","e","n","t",".">>, <<"f","e","t","c","h","(">>, <<"X","M","L","H","t","t","p","R","e","q","u","e","s","t">>, <<"h","t","t","p">>,
    <<".","q","u","e","r","y","(">>, <<".","c","o","n","n","e","c","t","(">>, <<".","p","o","o","l">>, <<"p","g",".">>, <<"p","o","s","t","g","r","e","s">>,
    <<"d","a","t","a","b","a","s","e">>, <<"r","e","a","d","C","S","V">>, <<"p","a","s","s","w","o","r","d">>, <<"P","a","s","s","w","o","r","d">>, <<"p","g">>, <<".">> }

CodeTexts == Concats(CodeFragments, MaxCodeFrags)

CodeClassify ==
    /\ cVerdict = NoVerdict
    /\ cVerdict' = isSafeAnalysisCode(cCode)
    /\ UNCHANGED <<cCode, mainVars, guardVars, shapeVars, jsonVars, procVars>>

\* ------------------------------------------------------------------
\* Analysis code the program itself presents
\* ------------------------------------------------------------------
\* The usage examples of the analyze tool description.
exampleBasicCount ==
    <<"r","e","t","u","r","n"," ","d","a","t","a",".","l","e","n","g","t","h",";">>
exampleBasicMap ==
    <<"r","e","t","u","r","n"," ","d","a","t","a",".","m","a","p","(","r","o","w"," ","=",">"," ","r",
    "o","w",".","n","a","m","e",")",";">>
exampleDescribe ==
    <<"r","e","t","u","r","n"," ","d","f","d",".","D","a","t","a","F","r","a","m","e","(","d","a","t",
    "a",")",".","d","e","s","c","r","i","b","e","(",")",";">>
exampleFiltering ==
    <<"r","e","t","u","r","n"," ","d","f","d",".","D","a","t","a","F","r","a","m","e","(","d","a","t",
    "a",")",".","q","u","e","r","y","(","\"","a","g","e"," ",">"," ","2","5","\"",")",";">>
exampleGrouping ==
    <<"r","e","t","u","r","n"," ","d","f","d",".","D","a","t","a","F","r","a","m","e","(","d","a","t",
    "a",")",".","g","r","o","u","p","b","y","(","\"","c","a","t","e","g","o","r","y","\"",")",".","s",
    "u","m","(",")",";">>
exampleCorr ==
    <<"r","e","t","u","r","n"," ","d","f","d",".","D","a","t","a","F","r","a","m","e","(","d","a","t",
    "a",")",".","c","o","r","r","(",")",";">>

UsageExamples == {exampleBasicCount, exampleBasicMap, exampleDescribe, exampleFiltering, exampleGrouping, exampleCorr}

\* analysisCode of the dataEngineeringTask tasks that call the analyze
\* handler.
analysisCode_profile_table ==
    <<"\n"," "," "," "," "," "," "," "," "," "," "," "," "," "," "," "," "," "," "," "," "," "," "," ",
    " "," "," "," "," ","c","o","n","s","t"," ","d","f"," ","="," ","d","f","d",".","D","a","t","a",
    "F","r","a","m","e","(","d","a","t","a",")",";","\n"," "," "," "," "," "," "," "," "," "," "," ",
    " "," "," "," "," "," "," "," "," "," "," "," "," "," "," "," "," ","c","o","n","s","t"," ","p",
    "r","o","f","i","l","e"," ","="," ","{","\n"," "," "," "," "," "," "," "," "," "," "," "," "," ",
    " "," "," "," "," "," "," "," "," "," "," "," "," "," "," "," "," "," "," ","t","o","t","a","l",
    "_","c","o","l","u","m","n","s",":"," ","d","f",".","s","h","a","p","e","[","1","]",",","\n"," ",
    " "," "," "," "," "," "," "," "," "," "," "," "," "," "," "," "," "," "," "," "," "," "," "," ",
    " "," "," "," "," "," "," ","d","a","t","a","_","t","y","p","e","s",":"," ","d","f",".","g","r",
    "o","u","p","b","y","(","\"","d","a","t","a","_","t","y","p","e","\"",")",".","c","o","u","n","t",
    "(",")",".","t","o","J","S","O","N","(",")",",","\n"," "," "," "," "," "," "," "," "," "," "," ",
    " "," "," "," "," "," "," "," "," "," "," "," "," "," "," "," "," "," "," "," "," ","n","u","l",
    "l","a","b","l","e","_","c","o","l","u","m","n","s",":"," ","d","f",".","q","u","e","r","y","(",
    "\"","i","s","_","n","u","l","l","a","b","l","e"," ","=","=","="," ","'","Y","E","S","'","\"",")",
    ".","s","h","a","p","e","[","0","]",",","\n"," "," "," "," "," "," "," "," "," "," "," "," "," ",
    " "," "," "," "," "," "," "," "," "," "," "," "," "," "," "," "," "," "," ","d","e","f","a","u",
    "l","t","_","v","a","l","u","e","s",":"," ","d","f",".","q","u","e","r","y","(","\"","c","o","l",
    "u","m","n","_","d","e","f","a","u","l","t"," ","I","S"," ","N","O","T"," ","N","U","L","L","\"",
    ")",".","s","h","a","p","e","[","0","]",",","\n"," "," "," "," "," "," "," "," "," "," "," "," ",
    " "," "," "," "," "," "," "," "," "," "," "," "," "," "," "," "," "," "," "," ","t","e","x","t",
    "_","c","o","l","u","m","n","s",":"," ","d","f",".","q","u","e","r","y","(","\"","d","a","t","a",
    "_","t","y","p","e"," ","L","I","K","E"," ","'","%","c","h","a","r","%","'"," ","O","R"," ","d",
    "a","t","a","_","t","y","p","e"," ","L","I","K","E"," ","'","%","t","e","x","t","%","'","\"",")",
    ".","s","h","a","p","e","[","0","]",",","\n"," "," "," "," "," "," "," "," "," "," "," "," "," ",
    " "," "," "," "," "," "," "," "," "," "," "," "," "," "," "," "," "," "," ","n","u","m","e","r",
    "i","c","_","c","o","l","u","m","n","s",":"," ","d","f",".","q","u","e","r","y","(","\"","d","a",
    "t","a","_","t","y","p","e"," ","L","I","K","E"," ","'","%","i","n","t","%","'"," ","O","R"," ",
    "d","a","t","a","_","t","y","p","e"," ","L","I","K","E"," ","'","%","d","e","c","i","m","a","l",
    "%","'"," ","O","R"," ","d","a","t","a","_","t","y","p","e"," ","L","I","K","E"," ","'","%","n",
    "u","m","e","r","i","c","%","'"," ","O","R"," ","d","a","t","a","_","t","y","p","e"," ","L","I",
    "K","E"," ","'","%","f","l","o","a","t","%","'","\"",")",".","s","h","a","p","e","[","0","]",",",
    "\n"," "," "," "," "," "," "," "," "," "," "," "," "," "," "," "," "," "," "," "," "," "," "," ",
    " "," "," "," "," "," "," "," "," ","d","a","t","e","_","c","o","l","u","m","n","s",":"," ","d",
    "f",".","q","u","e","r","y","(","\"","d","a","t","a","_","t","y","p","e"," ","L","I","K","E"," ",
    "'","%","d","a","t","e","%","'"," ","O","R"," ","d","a","t","a","_","t","y","p","e"," ","L","I",
    "K","E"," ","'","%","t","i","m","e","%","'","\"",")",".","s","h","a","p","e","[","0","]","\n"," ",
    " "," "," "," "," "," "," "," "," "," "," "," "," "," "," "," "," "," "," "," "," "," "," "," ",
    " "," "," ","}",";","\n"," "," "," "," "," "," "," "," "," "," "," "," "," "," "," "," "," "," ",
    " "," "," "," "," "," "," "," "," "," ","r","e","t","u","r","n"," ","p","r","o","f","i","l","e",
    ";","\n"," "," "," "," "," "," "," "," "," "," "," "," "," "," "," "," "," "," "," "," "," "," ",
    " "," ">>
analysisCode_analyze_schema ==
    <<"\n"," "," "," "," "," "," "," "," "," "," "," "," "," "," "," "," "," "," "," "," "," "," "," ",
    " "," "," "," "," ","c","o","n","s","t"," ","d","f"," ","="," ","d","f","d",".","D","a","t","a",
    "F","r","a","m","e","(","d","a","t","a",")",";","\n"," "," "," "," "," "," "," "," "," "," "," ",
    " "," "," "," "," "," "," "," "," "," "," "," "," "," "," "," "," ","c","o","n","s","t"," ","s",
    "c","h","e","m","a","_","a","n","a","l","y","s","i","s"," ","="," ","{","\n"," "," "," "," "," ",
    " "," "," "," "," "," "," "," "," "," "," "," "," "," "," "," "," "," "," "," "," "," "," "," ",
    " "," "," ","t","o","t","a","l","_","t","a","b","l","e","s",":"," ","d","f",".","s","h","a","p",
    "e","[","0","]",",","\n"," "," "," "," "," "," "," "," "," "," "," "," "," "," "," "," "," "," ",
    " "," "," "," "," "," "," "," "," "," "," "," "," "," ","t","a","b","l","e","_","t","y","p","e",
    "s",":"," ","d","f",".","g","r","o","u","p","b","y","(","\"","t","a","b","l","e","_","t","y","p",
    "e","\"",")",".","c","o","u","n","t","(",")",".","t","o","J","S","O","N","(",")",",","\n"," "," ",
    " "," "," "," "," "," "," "," "," "," "," "," "," "," "," "," "," "," "," "," "," "," "," "," ",
    " "," "," "," "," "," ","a","v","g","_","c","o","l","u","m","n","s","_","p","e","r","_","t","a",
    "b","l","e",":"," ","d","f",".","d","e","s","c","r","i","b","e","(",")",".","l","o","c","[","\"",
    "m","e","a","n","\"","]","[","\"","c","o","l","u","m","n","_","c","o","u","n","t","\"","]",",","\n",
    " "," "," "," "," "," "," "," "," "," "," "," "," "," "," "," "," "," "," "," "," "," "," "," ",
    " "," "," "," "," "," "," "," ","m","a","x","_","c","o","l","u","m","n","s",":"," ","d","f",".",
    "d","e","s","c","r","i","b","e","(",")",".","l","o","c","[","\"","m","a","x","\"","]","[","\"","c",
    "o","l","u","m","n","_","c","o","u","n","t","\"","]",",","\n"," "," "," "," "," "," "," "," "," ",
    " "," "," "," "," "," "," "," "," "," "," "," "," "," "," "," "," "," "," "," "," "," "," ","m",
    "i","n","_","c","o","l","u","m","n","s",":"," ","d","f",".","d","e","s","c","r","i","b","e","(",
    ")",".","l","o","c","[","\"","m","i","n","\"","]","[","\"","c","o","l","u","m","n","_","c","o","u",
    "n","t","\"","]",",","\n"," "," "," "," "," "," "," "," "," "," "," "," "," "," "," "," "," "," ",
    " "," "," "," "," "," "," "," "," "," "," "," "," "," ","t","a","b","l","e","s","_","b","y","_",
    "t","y","p","e",":"," ","d","f",".","g","r","o","u","p","b","y","(","\"","t","a","b","l","e","_",
    "t","y","p","e","\"",")",".","c","o","u","n","t","(",")",".","t","o","J","S","O","N","(",")","\n",
    " "," "," "," "," "," "," "," "," "," "," "," "," "," "," "," "," "," "," "," "," "," "," "," ",
    " "," "," "," ","}",";","\n"," "," "," "," "," "," "," "," "," "," "," "," "," "," "," "," "," ",
    " "," "," "," "," "," "," "," "," "," "," ","r","e","t","u","r","n"," ","s","c","h","e","m","a",
    "_","a","n","a","l","y","s","i","s",";","\n"," "," "," "," "," "," "," "," "," "," "," "," "," ",
    " "," "," "," "," "," "," "," "," "," "," ">>
analysisCode_check_data_quality ==
    <<"\n"," "," "," "," "," "," "," "," "," "," "," "," "," "," "," "," "," "," "," "," "," "," "," ",
    " "," "," "," "," ","c","o","n","s","t"," ","d","f"," ","="," ","d","f","d",".","D","a","t","a",
    "F","r","a","m","e","(","d","a","t","a",")",";","\n"," "," "," "," "," "," "," "," "," "," "," ",
    " "," "," "," "," "," "," "," "," "," "," "," "," "," "," "," "," ","c","o","n","s","t"," ","q",
    "u","a","l","i","t","y","_","m","e","t","r","i","c","s"," ","="," ","{","\n"," "," "," "," "," ",
    " "," "," "," "," "," "," "," "," "," "," "," "," "," "," "," "," "," "," "," "," "," "," "," ",
    " "," "," ","t","o","t","a","l","_","c","o","l","u","m","n","s","_","a","n","a","l","y","z","e",
    "d",":"," ","d","f",".","s","h","a","p","e","[","0","]",",","\n"," "," "," "," "," "," "," "," ",
    " "," "," "," "," "," "," "," "," "," "," "," "," "," "," "," "," "," "," "," "," "," "," "," ",
    "c","o","l","u","m","n","s","_","w","i","t","h","_","n","u","l","l","s",":"," ","d","f",".","q",
    "u","e","r","y","(","\"","n","u","l","l","_","c","o","u","n","t"," ",">"," ","0","\"",")",".","s",
    "h","a","p","e","[","0","]",",","\n"," "," "," "," "," "," "," "," "," "," "," "," "," "," "," ",
    " "," "," "," "," "," "," "," "," "," "," "," "," "," "," "," "," ","h","i","g","h","_","c","a",
    "r","d","i","n","a","l","i","t","y","_","c","o","l","u","m","n","s",":"," ","d","f",".","q","u",
    "e","r","y","(","\"","d","i","s","t","i","n","c","t","_","c","o","u","n","t"," ",">"," ","t","o",
    "t","a","l","_","r","o","w","s"," ","*"," ","0",".","8","\"",")",".","s","h","a","p","e","[","0",
    "]",",","\n"," "," "," "," "," "," "," "," "," "," "," "," "," "," "," "," "," "," "," "," "," ",
    " "," "," "," "," "," "," "," "," "," "," ","l","o","w","_","c","a","r","d","i","n","a","l","i",
    "t","y","_","c","o","l","u","m","n","s",":"," ","d","f",".","q","u","e","r","y","(","\"","d","i",
    "s","t","i","n","c","t","_","c","o","u","n","t"," ","<"," ","t","o","t","a","l","_","r","o","w",
    "s"," ","*"," ","0",".","1","\"",")",".","s","h","a","p","e","[","0","]",",","\n"," "," "," "," ",
    " "," "," "," "," "," "," "," "," "," "," "," "," "," "," "," "," "," "," "," "," "," "," "," ",
    " "," "," "," ","d","a","t","a","_","c","o","m","p","l","e","t","e","n","e","s","s",":"," ","d",
    "f",".","a","p","p","l","y","(","r","o","w"," ","=",">"," ","(","r","o","w",".","t","o","t","a",
    "l","_","r","o","w","s"," ","-"," ","r","o","w",".","n","u","l","l","_","c","o","u","n","t",")",
    " ","/"," ","r","o","w",".","t","o","t","a","l","_","r","o","w","s",")",".","m","e","a","n","(",
    ")",",","\n"," "," "," "," "," "," "," "," "," "," "," "," "," "," "," "," "," "," "," "," "," ",
    " "," "," "," "," "," "," "," "," "," "," ","a","v","g","_","d","i","s","t","i","n","c","t","_",
    "r","a","t","i","o",":"," ","d","f",".","a","p","p","l","y","(","r","o","w"," ","=",">"," ","r",
    "o","w",".","d","i","s","t","i","n","c","t","_","c","o","u","n","t"," ","/"," ","r","o","w",".",
    "t","o","t","a","l","_","r","o","w","s",")",".","m","e","a","n","(",")","\n"," "," "," "," "," ",
    " "," "," "," "," "," "," "," "," "," "," "," "," "," "," "," "," "," "," "," "," "," "," ","}",
    ";","\n"," "," "," "," "," "," "," "," "," "," "," "," "," "," "," "," "," "," "," "," "," "," ",
    " "," "," "," "," "," ","r","e","t","u","r","n"," ","q","u","a","l","i","t","y","_","m","e","t",
    "r","i","c","s",";","\n"," "," "," "," "," "," "," "," "," "," "," "," "," "," "," "," "," "," ",
    " "," "," "," "," "," ">>
analysisCode_optimize_query ==
    <<"\n"," "," "," "," "," "," "," "," "," "," "," "," "," "," "," "," "," "," "," "," "," "," "," ",
    " "," "," "," "," ","c","o","n","s","t"," ","d","f"," ","="," ","d","f","d",".","D","a","t","a",
    "F","r","a","m","e","(","d","a","t","a",")",";","\n"," "," "," "," "," "," "," "," "," "," "," ",
    " "," "," "," "," "," "," "," "," "," "," "," "," "," "," "," "," ","c","o","n","s","t"," ","o",
    "p","t","i","m","i","z","a","t","i","o","n","_","i","n","s","i","g","h","t","s"," ","="," ","{",
    "\n"," "," "," "," "," "," "," "," "," "," "," "," "," "," "," "," "," "," "," "," "," "," "," ",
    " "," "," "," "," "," "," "," "," ","t","o","t","a","l","_","s","t","a","t","i","s","t","i","c",
    "s",":"," ","d","f",".","s","h","a","p","e","[","0","]",",","\n"," "," "," "," "," "," "," "," ",
    " "," "," "," "," "," "," "," "," "," "," "," "," "," "," "," "," "," "," "," "," "," "," "," ",
    "h","i","g","h","_","s","e","l","e","c","t","i","v","i","t","y","_","c","o","l","u","m","n","s",
    ":"," ","d","f",".","q","u","e","r","y","(","\"","n","_","d","i","s","t","i","n","c","t"," ",">",
    " ","1","0","0","\"",")",".","s","h","a","p","e","[","0","]",",","\n"," "," "," "," "," "," "," ",
    " "," "," "," "," "," "," "," "," "," "," "," "," "," "," "," "," "," "," "," "," "," "," "," ",
    " ","l","o","w","_","s","e","l","e","c","t","i","v","i","t","y","_","c","o","l","u","m","n","s",
    ":"," ","d","f",".","q","u","e","r","y","(","\"","n","_","d","i","s","t","i","n","c","t"," ","<",
    " ","1","0","\"",")",".","s","h","a","p","e","[","0","]",",","\n"," "," "," "," "," "," "," "," ",
    " "," "," "," "," "," "," "," "," "," "," "," "," "," "," "," "," "," "," "," "," "," "," "," ",
    "a","v","g","_","d","i","s","t","i","n","c","t","_","v","a","l","u","e","s",":"," ","d","f",".",
    "d","e","s","c","r","i","b","e","(",")",".","l","o","c","[","\"","m","e","a","n","\"","]","[","\"",
    "n","_","d","i","s","t","i","n","c","t","\"","]",",","\n"," "," "," "," "," "," "," "," "," "," ",
    " "," "," "," "," "," "," "," "," "," "," "," "," "," "," "," "," "," "," "," "," "," ","c","o",
    "l","u","m","n","s","_","w","i","t","h","_","c","o","r","r","e","l","a","t","i","o","n",":"," ",
    "d","f",".","q","u","e","r","y","(","\"","c","o","r","r","e","l","a","t","i","o","n"," ","I","S",
    " ","N","O","T"," ","N","U","L","L","\"",")",".","s","h","a","p","e","[","0","]",",","\n"," "," ",
    " "," "," "," "," "," "," "," "," "," "," "," "," "," "," "," "," "," "," "," "," "," "," "," ",
    " "," "," "," "," "," ","i","n","d","e","x","_","c","a","n","d","i","d","a","t","e","s",":"," ",
    "d","f",".","q","u","e","r","y","(","\"","n","_","d","i","s","t","i","n","c","t"," ",">"," ","5",
    "0"," ","A","N","D"," ","c","o","r","r","e","l","a","t","i","o","n"," ","I","S"," ","N","O","T",
    " ","N","U","L","L","\"",")",".","s","h","a","p","e","[","0","]","\n"," "," "," "," "," "," "," ",
    " "," "," "," "," "," "," "," "," "," "," "," "," "," "," "," "," "," "," "," "," ","}",";","\n",
    " "," "," "," "," "," "," "," "," "," "," "," "," "," "," "," "," "," "," "," "," "," "," "," ",
    " "," "," "," ","r","e","t","u","r","n"," ","o","p","t","i","m","i","z","a","t","i","o","n","_",
    "i","n","s","i","g","h","t","s",";","\n"," "," "," "," "," "," "," "," "," "," "," "," "," "," ",
    " "," "," "," "," "," "," "," "," "," ">>
analysisCode_explore_dependencies ==
    <<"\n"," "," "," "," "," "," "," "," "," "," "," "," "," "," "," "," "," "," "," "," "," "," "," ",
    " "," "," "," "," ","c","o","n","s","t"," ","d","f"," ","="," ","d","f","d",".","D","a","t","a",
    "F","r","a","m","e","(","d","a","t","a",")",";","\n"," "," "," "," "," "," "," "," "," "," "," ",
    " "," "," "," "," "," "," "," "," "," "," "," "," "," "," "," "," ","c","o","n","s","t"," ","d",
    "e","p","e","n","d","e","n","c","y","_","a","n","a","l","y","s","i","s"," ","="," ","{","\n"," ",
    " "," "," "," "," "," "," "," "," "," "," "," "," "," "," "," "," "," "," "," "," "," "," "," ",
    " "," "," "," "," "," "," ","t","o","t","a","l","_","f","o","r","e","i","g","n","_","k","e","y",
    "s",":"," ","d","f",".","s","h","a","p","e","[","0","]",",","\n"," "," "," "," "," "," "," "," ",
    " "," "," "," "," "," "," "," "," "," "," "," "," "," "," "," "," "," "," "," "," "," "," "," ",
    "t","a","b","l","e","s","_","w","i","t","h","_","f","k","s",":"," ","d","f",".","g","r","o","u",
    "p","b","y","(","\"","t","a","b","l","e","_","n","a","m","e","\"",")",".","c","o","u","n","t","(",
    ")",".","s","h","a","p","e","[","0","]",",","\n"," "," "," "," "," "," "," "," "," "," "," "," ",
    " "," "," "," "," "," "," "," "," "," "," "," "," "," "," "," "," "," "," "," ","t","a","b","l",
    "e","s","_","r","e","f","e","r","e","n","c","e","d","_","b","y","_","f","k","s",":"," ","d","f",
    ".","g","r","o","u","p","b","y","(","\"","f","o","r","e","i","g","n","_","t","a","b","l","e","_",
    "n","a","m","e","\"",")",".","c","o","u","n","t","(",")",".","s","h","a","p","e","[","0","]",",",
    "\n"," "," "," "," "," "," "," "," "," "," "," "," "," "," "," "," "," "," "," "," "," "," "," ",
    " "," "," "," "," "," "," "," "," ","m","o","s","t","_","r","e","f","e","r","e","n","c","e","d",
    "_","t","a","b","l","e","s",":"," ","d","f",".","g","r","o","u","p","b","y","(","\"","f","o","r",
    "e","i","g","n","_","t","a","b","l","e","_","n","a","m","e","\"",")",".","c","o","u","n","t","(",
    ")",".","s","o","r","t","V","a","l","u","e","s","(","\"","c","o","u","n","t","\"",","," ","{","a",
    "s","c","e","n","d","i","n","g",":"," ","f","a","l","s","e","}",")",".","h","e","a","d","(","5",
    ")",".","t","o","J","S","O","N","(",")",",","\n"," "," "," "," "," "," "," "," "," "," "," "," ",
    " "," "," "," "," "," "," "," "," "," "," "," "," "," "," "," "," "," "," "," ","t","a","b","l",
    "e","s","_","w","i","t","h","_","m","o","s","t","_","f","k","s",":"," ","d","f",".","g","r","o",
    "u","p","b","y","(","\"","t","a","b","l","e","_","n","a","m","e","\"",")",".","c","o","u","n","t",
    "(",")",".","s","o","r","t","V","a","l","u","e","s","(","\"","c","o","u","n","t","\"",","," ","{",
    "a","s","c","e","n","d","i","n","g",":"," ","f","a","l","s","e","}",")",".","h","e","a","d","(",
    "5",")",".","t","o","J","S","O","N","(",")","\n"," "," "," "," "," "," "," "," "," "," "," "," ",
    " "," "," "," "," "," "," "," "," "," "," "," "," "," "," "," ","}",";","\n"," "," "," "," "," ",
    " "," "," "," "," "," "," "," "," "," "," "," "," "," "," "," "," "," "," "," "," "," "," ","r",
    "e","t","u","r","n"," ","d","e","p","e","n","d","e","n","c","y","_","a","n","a","l","y","s","i",
    "s",";","\n"," "," "," "," "," "," "," "," "," "," "," "," "," "," "," "," "," "," "," "," "," ",
    " "," "," ">>

TaskCodes == {analysisCode_profile_table,
              analysisCode_analyze_schema,
              analysisCode_check_data_quality,
              analysisCode_optimize_query,
              analysisCode_explore_dependencies}

PresentedCodes == UsageExamples \cup TaskCodes

\* ------------------------------------------------------------------
\* Truncation on its own
\* ------------------------------------------------------------------
\* Caps the handlers pass to slice: limit is any number not above the
\* hard ceiling.
SmallCaps == (0 - MaxRows - 1)..(MaxRows + 1)
PassedCaps == SmallCaps \cup {HardCeiling - 1, HardCeiling}

ShapeOnce ==
    /\ sPc = "start"
    /\ sOnce' = slice(sRows, 0, sCap)
    /\ sPc' = "once"
    /\ UNCHANGED <<sRows, sCap, sCap2, sTwice, mainVars, guardVars, codeVars,
                   jsonVars, procVars>>

ShapeTwice ==
    /\ sPc = "once"
    /\ sTwice' = slice(sOnce, 0, sCap2)
    /\ sPc' = "twice"
    /\ UNCHANGED <<sRows, sCap, sCap2, sOnce, mainVars, guardVars, codeVars,
                   jsonVars, procVars>>

\* ------------------------------------------------------------------
\* Environment registry
\* ------------------------------------------------------------------
\* The keys of Database.pools.
Envs == {"default", "dev", "prod"}

\* Pool option max.
PoolMax == 10

\* Names for which this.pools[name] is truthy: the registered pools and
\* the properties every object inherits from Object.prototype.
InheritedNames == {"constructor"}
TruthyPoolNames == Envs \cup InheritedNames

\* Arguments of the setEnvironment tool (any string).
EnvArgs == Envs \cup InheritedNames \cup {"staging"}

\* client.release(): the client goes back to its pool.
releaseLeak(l, c) == l
releaseToCurrent(l, c) ==
    IF currentPool \in Envs THEN [l EXCEPT ![currentPool] = @ - 1] ELSE l
release(l, c) == [l EXCEPT ![c] = @ - 1]

\* ------------------------------------------------------------------
\* Tool handlers: envelopes and errors
\* ------------------------------------------------------------------
NoMsg == [category |-> None, message |-> None, detail |-> None, code |-> None]
NoOut == [kind |-> None, msg |-> NoMsg, rows |-> <<>>, total |-> 0,
          result |-> <<>>]

\* {content: [{type: "text", text}]} of a successful return; rows and
\* total are the rows and the row count the text reports.
Envelope(kind, rows, total) ==
    [kind |-> kind, msg |-> NoMsg, rows |-> rows, total |-> total,
     result |-> <<>>]

\* The analyze tool's successful return: the text ends with
\* JSON.stringify(analysisResult, null, 2), every element of an array
\* result included.
AnalysisEnvelope(rows, total, analysisResult) ==
    [kind |-> "result", msg |-> NoMsg, rows |-> rows, total |-> total,
     result |-> analysisResult]

\* An Error: its message (with the pattern name it interpolates, if any)
\* and its code property.
Error(message, detail, errCode) ==
    [message |-> message, detail |-> detail, code |-> errCode]

\* The switch on error.code in the catch block of the query tool.
queryErrorCategory(error) ==
    IF error.code = None THEN "Error executing query"
    ELSE CASE error.code = "42P01" -> "Table not found"
           [] error.code = "42703" -> "Column not found"
           [] error.code = "42601" -> "SQL syntax error"
           [] error.code = "23505" -> "Unique constraint violation"
           [] error.code = "23503" -> "Foreign key constraint violation"
           [] error.code \in {"28P01", "28000"} -> "Authentication error"
           [] error.code = "3D000" -> "Database not found"
           [] error.code = "42P07" -> "Table already exists"
           [] OTHER -> "Database error (code)"

\* The switch on error.code in the catch block of the analyze tool.
analyzeErrorCategory(error) ==
    IF error.code = None THEN "Error during analysis"
    ELSE CASE error.code = "42P01" -> "Table not found"
           [] error.code = "42703" -> "Column not found"
           [] error.code = "42601" -> "SQL syntax error"
           [] error.code \in {"28P01", "28000"} -> "Authentication error"
           [] error.code = "3D000" -> "Database not found"
           [] OTHER -> "Database error (code)"

\* The catch block of each tool handler: the error envelope it returns.
Catch(t, error) ==
    [kind  |-> "error",
     msg   |-> [category |-> CASE t = "query" -> queryErrorCategory(error)
                               [] t = "analyze" -> analyzeErrorCategory(error)
                               [] t = "dataInsights" -> "Error generating insights"
                               [] t = "dataReport" -> "Error generating report",
                message  |-> error.message,
                detail   |-> error.detail,
                code     |-> error.code],
     rows  |-> <<>>,
     total |-> 0,
     result |-> <<>>]

\* A value thrown by analysis code that has no properties (null or
\* undefined): reading error.message in the catch block throws, and the
\* handler's promise rejects.
Rejected == [kind |-> "rejected", msg |-> NoMsg, rows |-> <<>>, total |-> 0,
             result |-> <<>>]

ErrQueryRequired == Error("Query parameter is required", None, None)
ErrNotReadOnly == Error("Only SELECT, WITH, and EXPLAIN queries are allowed", None, None)
ErrMissingLimit == Error("All queries must include a LIMIT clause", None, None)
ErrLimitExceeded == Error("Limit cannot exceed 5000 rows", None, None)
ErrBlocked(name) == Error("Analysis code contains potentially dangerous patterns", name, None)
ErrUnsafeGenerated == Error("Unable to generate a safe SQL query", None, None)
ErrNotAFunction == Error("connect is not a function", None, None)
ErrNoRows == Error("Cannot read properties of undefined (reading 'slice')", None, None)
ErrEvaluation == Error("analysis code threw", None, None)
ErrStringify == Error("JSON.stringify threw", None, None)
ErrAI == Error("createMessage rejected", None, None)

\* ------------------------------------------------------------------
\* Tool handlers: arguments and what the store, the analysis code and
\* the AI client may answer
\* ------------------------------------------------------------------
\* limit = 100 of the query tool; limit = 1000 of analyze, dataInsights and
\* dataReport.
QueryDefaultLimit == 100
AnalyzeDefaultLimit == 1000

qGood == <<"s","e","l","e","c","t"," ","*"," ","f","r","o","m"," ","t"," ","l","i","m","i","t"," ","2">>
qNoLimit == <<" ","S","E","L","E","C","T"," ","*"," ","F","R","O","M"," ","t"," ">>
qNotReadOnly == <<"d","e","l","e","t","e"," ","f","r","o","m"," ","t"," ","l","i","m","i","t"," ","1">>
qNeither == <<"d","r","o","p"," ","t","a","b","l","e"," ","t">>
qWithDelete == <<"w","i","t","h"," ","d"," ","a","s"," ","(","d","e","l","e","t","e"," ","f","r","o","m"," ","t"," ","r","e","t","u","r","n","i","n","g"," ","*",")"," ","s","e","l","e","c","t"," ","*"," ","f","r","o","m"," ","d"," ","l","i","m","i","t"," ","1">>

QueryArgs == {<<>>, qGood, qNoLimit, qNotReadOnly, qNeither, qWithDelete}

\* Texts the AI client may answer with when asked for a query.
GeneratedTexts == {<<>>, qGood, qNoLimit, qNeither}

cSafe == <<"r","e","t","u","r","n"," ","d","a","t","a",".","l","e","n","g","t","h",";">>
cBlocked == <<"r","e","t","u","r","n"," ","d","a","t","a",".","l","e","n","g","t","h",";"," ","/","/"," ","p","r","o","c","e","s","s",".","e","n","v",".","S","E","C","R","E","T">>

CodeArgs == {cSafe, cBlocked}

LimitArgs == SmallCaps \cup {HardCeiling - 1, HardCeiling, HardCeiling + 1}

\* error.code of a failed statement and of a failed connect (None: the
\* pool's connect timeout, an Error without code).
StoreErrorCodes == {"42P01", "23505", "57014"}
ConnectErrorCodes == {None, "28P01"}

\* executeDataFrameCode cuts an array result to 100 elements and the
\* values of a Series to 20, and shows a DataFrame by head(5).
DisplayCap == 100
SeriesCap == 20
HeadRows == 5

\* Lengths of the array, Series or DataFrame analysis code may return.
ResultLens == {0, HeadRows + 1, SeriesCap + 1, DisplayCap, DisplayCap + 1}

\* How evaluating analysis code may end ("value": it returns an array).
EvalOutcomes == {"value", "throws", "throwsNullish", "unserializable"}

\* Number.prototype.toString for an integer.
Digits == <<"0","1","2","3","4","5","6","7","8","9">>

RECURSIVE natToString(_)
natToString(n) ==
    IF n < 10 THEN <<Digits[n + 1]>>
    ELSE natToString(n \div 10) \o <<Digits[(n % 10) + 1]>>

numberToString(n) == IF n < 0 THEN <<"-">> \o natToString(0 - n) ELSE natToString(n)

\* dataInsights: the generated query as executed.
queryWithLimitVerbatim(generatedQuery, l) == generatedQuery

queryWithLimit(generatedQuery, l) ==
    IF includes(toLowerCase(generatedQuery), <<"l","i","m","i","t">>)
    THEN generatedQuery
    ELSE generatedQuery \o <<" ","L","I","M","I","T"," ">> \o numberToString(l)

\* The text a tool passes to client.query.
Statement(t, q, l) == IF t = "dataInsights" THEN queryWithLimit(q, l) ELSE q

\* ------------------------------------------------------------------
\* Tool handlers: steps
\* ------------------------------------------------------------------
\* A throw placed after the call of connect().
ThrowAfterConnect(t, error) ==
    /\ out' = Catch(t, error)
    /\ pc' = "done"
    /\ client' = currentPool
    /\ nConnect' = nConnect + 1
    /\ UNCHANGED <<stmt, stored, nQuery, nRelease, leased>>

\* throw inside the handler's outer try, before any connection is held:
\* the catch block returns the error envelope.
Throw(t, error) ==
    /\ out' = Catch(t, error)
    /\ pc' = "done"
    /\ UNCHANGED <<client, stmt, stored, nConnect, nQuery, nRelease, leased>>

\* database.pools[database.currentPool].connect(): the active name is
\* read here, and the handler suspends until the pool answers.
Connect(t) ==
    IF currentPool \in Envs
    THEN /\ client' = currentPool
         /\ nConnect' = nConnect + 1
         /\ pc' = "connect"
         /\ UNCHANGED <<out, stmt, stored, nQuery, nRelease, leased>>
    ELSE Throw(t, ErrNotAFunction)

\* The checks with the LIMIT clause looked for before the read-only
\* keyword.
ChecksLimitFirst(t, q, l, c) ==
    IF t = "query" /\ q = <<>> THEN Throw(t, ErrQueryRequired)
    ELSE IF ~hasLimitClause(q) THEN Throw(t, ErrMissingLimit)
    ELSE IF ~isReadOnlyQuery(q) THEN Throw(t, ErrNotReadOnly)
    ELSE IF l > HardCeiling THEN Throw(t, ErrLimitExceeded)
    ELSE IF t = "analyze" /\ ~isSafeAnalysisCode(c).safe
         THEN Throw(t, ErrBlocked(isSafeAnalysisCode(c).blockedPattern))
    ELSE Connect(t)

\* The checks of query, analyze and dataReport before the connection is
\* asked for, in the order of the handler; the !query check is the query
\* tool's alone and the Code Guard the analyze tool's.
Checks(t, q, l, c) ==
    IF t = "query" /\ q = <<>> THEN Throw(t, ErrQueryRequired)
    ELSE IF ~isReadOnlyQuery(q) THEN Throw(t, ErrNotReadOnly)
    ELSE IF ~hasLimitClause(q) THEN Throw(t, ErrMissingLimit)
    ELSE IF l > HardCeiling THEN Throw(t, ErrLimitExceeded)
    ELSE IF t = "analyze" /\ ~isSafeAnalysisCode(c).safe
         THEN Throw(t, ErrBlocked(isSafeAnalysisCode(c).blockedPattern))
    ELSE Connect(t)

CallQuery(q, l) ==
    /\ pc = "idle"
    /\ tool' = "query" /\ query' = q /\ limit' = l /\ code' = <<>>
    /\ Checks("query", q, l, <<>>)
    /\ UNCHANGED <<envVars, guardVars, codeVars, shapeVars, jsonVars,
                   procVars>>

CallAnalyze(q, c, l) ==
    /\ pc = "idle"
    /\ tool' = "analyze" /\ query' = q /\ limit' = l /\ code' = c
    /\ Checks("analyze", q, l, c)
    /\ UNCHANGED <<envVars, guardVars, codeVars, shapeVars, jsonVars,
                   procVars>>

CallDataReport(q, l) ==
    /\ pc = "idle"
    /\ tool' = "dataReport" /\ query' = q /\ limit' = l /\ code' = <<>>
    /\ Checks("dataReport", q, l, <<>>)
    /\ UNCHANGED <<envVars, guardVars, codeVars, shapeVars, jsonVars,
                   procVars>>

\* dataInsights first asks the AI client for a query.
CallDataInsights(l) ==
    /\ pc = "idle"
    /\ tool' = "dataInsights" /\ query' = <<>> /\ limit' = l /\ code' = <<>>
    /\ pc' = "generate"
    /\ UNCHANGED <<out, client, stmt, stored, nConnect, nQuery, nRelease,
                   leased>>
    /\ UNCHANGED <<envVars, guardVars, codeVars, shapeVars, jsonVars,
                   procVars>>

\* The AI client answers with a text: it is trimmed, must be non-empty
\* and read-only, and the connection is asked for.
GenerateResolves(text) ==
    /\ pc = "generate"
    /\ LET generatedQuery == trim(text)
       IN  /\ query' = generatedQuery
           /\ IF generatedQuery = <<>> \/ ~isReadOnlyQuery(generatedQuery)
              THEN Throw(tool, ErrUnsafeGenerated)
              ELSE Connect(tool)
    /\ UNCHANGED <<tool, limit, code, envVars, guardVars, codeVars, shapeVars, jsonVars,
                   procVars>>

\* The AI client answers with a non-text content (generatedQuery is
\* null) or its request fails.
GenerateFails(error) ==
    /\ pc = "generate"
    /\ Throw(tool, error)
    /\ UNCHANGED <<tool, query, limit, code, envVars, guardVars, codeVars,
                   shapeVars, jsonVars, procVars>>

\* connect() resolves with a client, and the handler passes its statement
\* to client.query.
ConnectResolves ==
    /\ pc = "connect"
    /\ leased[client] < PoolMax
    /\ leased' = [leased EXCEPT ![client] = @ + 1]
    /\ stmt' = Statement(tool, query, limit)
    /\ nQuery' = nQuery + 1
    /\ pc' = "query"
    /\ UNCHANGED <<tool, query, limit, code, client, stored, nConnect,
                   nRelease, out>>
    /\ UNCHANGED <<envVars, guardVars, codeVars, shapeVars, jsonVars,
                   procVars>>

\* connect() rejects and the handler runs client.release() all the same.
ConnectRejectsReleases(errCode) ==
    /\ pc = "connect"
    /\ out' = Catch(tool, Error("connect failed", None, errCode))
    /\ pc' = "done"
    /\ leased' = release(leased, client)
    /\ nRelease' = nRelease + 1
    /\ UNCHANGED <<tool, query, limit, code, client, stmt, stored, nConnect,
                   nQuery>>
    /\ UNCHANGED <<envVars, guardVars, codeVars, shapeVars, jsonVars,
                   procVars>>

\* connect() rejects: there is no client, and the catch block answers.
ConnectRejects(errCode) ==
    /\ pc = "connect"
    /\ out' = Catch(tool, Error("connect failed", None, errCode))
    /\ pc' = "done"
    /\ UNCHANGED <<tool, query, limit, code, client, stmt, stored, nConnect,
                   nQuery, nRelease, leased>>
    /\ UNCHANGED <<envVars, guardVars, codeVars, shapeVars, jsonVars,
                   procVars>>

\* The finally block, then the return value or the catch block's.
Finish(envelope) ==
    /\ leased' = release(leased, client)
    /\ nRelease' = nRelease + 1
    /\ out' = envelope
    /\ pc' = "done"

\* client.query rejects and the handler passes the statement again.
QueryRejectsRetries(errCode) ==
    /\ pc = "query"
    /\ nQuery' = nQuery + 1
    /\ UNCHANGED <<tool, query, limit, code, client, stmt, stored, nConnect,
                   nRelease, leased, out, pc>>
    /\ UNCHANGED <<envVars, guardVars, codeVars, shapeVars, jsonVars,
                   procVars>>

\* client.query rejects with a store error.
QueryRejects(errCode) ==
    /\ pc = "query"
    /\ Finish(Catch(tool, Error("statement failed", None, errCode)))
    /\ UNCHANGED <<tool, query, limit, code, client, stmt, stored, nConnect,
                   nQuery>>
    /\ UNCHANGED <<envVars, guardVars, codeVars, shapeVars, jsonVars,
                   procVars>>

\* client.query resolves with a result that has no rows property.
QueryResolvesNoRows ==
    /\ pc = "query"
    /\ IF tool \in {"query", "analyze"}
       THEN Finish(Envelope("nostruct", <<>>, 0))
       ELSE Finish(Catch(tool, ErrNoRows))
    /\ UNCHANGED <<tool, query, limit, code, client, stmt, stored, nConnect,
                   nQuery>>
    /\ UNCHANGED <<envVars, guardVars, codeVars, shapeVars, jsonVars,
                   procVars>>

\* client.query resolves with n rows and the analyze tool runs its code on
\* them without looking at their number.
QueryResolvesEvaluatesEmpty(n, ev, m) ==
    /\ pc = "query"
    /\ tool = "analyze" \/ ev = "value"
    /\ (tool = "analyze" /\ ev = "value") \/ m = 0
    /\ LET resultRows == Rows(n)
           rows == slice(resultRows, 0, limit)
       IN  CASE tool = "query" /\ n = 0 ->
                  Finish(Envelope("empty", <<>>, 0))
             [] tool = "query" /\ n > 0 ->
                  Finish(Envelope("result", rows, Len(resultRows)))
             [] tool = "analyze" ->
                  Finish(CASE ev = "value" ->
                                AnalysisEnvelope(rows, Len(resultRows),
                                                 Rows(m))
                           [] ev = "throws" -> Catch(tool, ErrEvaluation)
                           [] ev = "unserializable" -> Catch(tool, ErrStringify)
                           [] ev = "throwsNullish" -> Rejected)
             [] tool \in {"dataInsights", "dataReport"} ->
                  /\ pc' = "ai"
                  /\ UNCHANGED <<leased, nRelease, out>>
    /\ stored' = Rows(n)
    /\ UNCHANGED <<tool, query, limit, code, client, stmt, nConnect, nQuery>>
    /\ UNCHANGED <<envVars, guardVars, codeVars, shapeVars, jsonVars,
                   procVars>>

\* client.query resolves with n rows; ev is how the analysis code ends
\* when it is run, and m the length of the array it returns (where the
\* code is not run, or returns nothing, they are not read and stay fixed).
QueryResolves(n, ev, m) ==
    /\ pc = "query"
    /\ (tool = "analyze" /\ n > 0) \/ ev = "value"
    /\ (tool = "analyze" /\ n > 0 /\ ev = "value") \/ m = 0
    /\ LET resultRows == Rows(n)
           rows == slice(resultRows, 0, limit)
       IN  CASE tool \in {"query", "analyze"} /\ n = 0 ->
                  Finish(Envelope("empty", <<>>, 0))
             [] tool = "query" /\ n > 0 ->
                  Finish(Envelope("result", rows, Len(resultRows)))
             [] tool = "analyze" /\ n > 0 ->
                  Finish(CASE ev = "value" ->
                                AnalysisEnvelope(rows, Len(resultRows),
                                                 Rows(m))
                           [] ev = "throws" -> Catch(tool, ErrEvaluation)
                           [] ev = "unserializable" -> Catch(tool, ErrStringify)
                           [] ev = "throwsNullish" -> Rejected)
             [] tool \in {"dataInsights", "dataReport"} ->
                  /\ pc' = "ai"
                  /\ UNCHANGED <<leased, nRelease, out>>
    /\ stored' = Rows(n)
    /\ UNCHANGED <<tool, query, limit, code, client, stmt, nConnect, nQuery>>
    /\ UNCHANGED <<envVars, guardVars, codeVars, shapeVars, jsonVars,
                   procVars>>

\* client.query resolves with n rows and analysisFunction(rows, dfd) does
\* not return (the code is synchronous and not time-bounded, e.g.
\* "while(true){}"): the handler stays in its try block, and the event
\* loop runs nothing else.
EvaluationDiverges(n) ==
    /\ pc = "query"
    /\ tool = "analyze" /\ n > 0
    /\ stored' = Rows(n)
    /\ pc' = "blocked"
    /\ UNCHANGED <<tool, query, limit, code, client, stmt, nConnect, nQuery,
                   nRelease, leased, out>>
    /\ UNCHANGED <<envVars, guardVars, codeVars, shapeVars, jsonVars,
                   procVars>>

\* The AI client answers the report or insights request.
AIResolves ==
    /\ pc = "ai"
    /\ Finish(Envelope("report", <<>>, 0))
    /\ UNCHANGED <<tool, query, limit, code, client, stmt, stored, nConnect,
                   nQuery>>
    /\ UNCHANGED <<envVars, guardVars, codeVars, shapeVars, jsonVars,
                   procVars>>

AIRejects ==
    /\ pc = "ai"
    /\ Finish(Catch(tool, ErrAI))
    /\ UNCHANGED <<tool, query, limit, code, client, stmt, stored, nConnect,
                   nQuery>>
    /\ UNCHANGED <<envVars, guardVars, codeVars, shapeVars, jsonVars,
                   procVars>>

\* The caller has its answer; the next call may start.
Return ==
    /\ shutdown # "exited"
    /\ pc = "done"
    /\ pc' = "idle"
    /\ tool' = None /\ query' = <<>> /\ limit' = 0 /\ code' = <<>>
    /\ client' = None /\ stmt' = <<>> /\ stored' = <<>>
    /\ nConnect' = 0 /\ nQuery' = 0 /\ nRelease' = 0
    /\ out' = NoOut
    /\ UNCHANGED <<leased, envVars, guardVars, codeVars, shapeVars, jsonVars,
                   procVars>>

\* ------------------------------------------------------------------
\* setEnvironment and its revert timer
\* ------------------------------------------------------------------
\* The setEnvironment tool: Database.setEnvironment, then setTimeout of
\* the revert to "default"; a name with no truthy pools entry throws
\* before the timer is set, and the catch block answers.
SetEnvironment(environment) ==
    /\ pc # "blocked" /\ shutdown # "exited"
    /\ IF environment \in TruthyPoolNames
       THEN /\ timers < MaxTimers
            /\ currentPool' = environment
            /\ timers' = timers + 1
            /\ envOut' = "set"
       ELSE /\ envOut' = "error"
            /\ UNCHANGED <<currentPool, timers>>
    /\ UNCHANGED <<leased, callVars, guardVars, codeVars, shapeVars, jsonVars,
                   procVars>>

\* A timer whose callback leaves the selection as it is.
TimerFiresKeeps ==
    /\ timers > 0
    /\ timers' = timers - 1
    /\ UNCHANGED <<currentPool, envOut, leased, callVars, guardVars, codeVars,
                   shapeVars, jsonVars, procVars>>

\* A revert timer fires: database.setEnvironment("default"). All timers
\* have the same delay, so they fire in the order they were set: the one
\* that fires is the oldest pending.
TimerFires ==
    /\ pc # "blocked" /\ shutdown # "exited"
    /\ timers > 0
    /\ timers' = timers - 1
    /\ currentPool' = "default"
    /\ UNCHANGED <<envOut, leased, callVars, guardVars, codeVars, shapeVars, jsonVars,
                   procVars>>

\* ------------------------------------------------------------------
\* JsonAnalyzer
\* ------------------------------------------------------------------
\* generateAnalysisDescriptions answers with two descriptions when the AI
\* client fails or its text holds no JSON array.
FallbackDescriptions == 2

\* The character U+0060, which a string of this notation cannot hold.
Backtick == "U+0060"

\* s without the occurrences of fence, each with the line break after it:
\* String.prototype.replace with /fence\n?/g and "".
RECURSIVE removeFence(_, _)
removeFence(s, fence) ==
    IF s = <<>> THEN <<>>
    ELSE IF startsWith(s, fence)
         THEN LET rest == SubSeq(s, Len(fence) + 1, Len(s))
              IN  IF rest # <<>> /\ Head(rest) = "\n"
                  THEN removeFence(Tail(rest), fence)
                  ELSE removeFence(rest, fence)
         ELSE <<Head(s)>> \o removeFence(Tail(s), fence)

\* The code generateAnalysisCode makes of the AI client's text.
stripFences(responseText) ==
    trim(removeFence(removeFence(responseText,
             <<Backtick,Backtick,Backtick,"j","a","v","a","s","c","r","i","p","t">>),
         <<Backtick,Backtick,Backtick>>))

\* The code it returns when the answer is not a text, and when the request
\* fails.
codeNotText == <<"d","f",".","h","e","a","d","(","5",")">>
codeFallback == <<"d","f",".","h","e","a","d","(","1","0",")">>

\* Texts the AI client may answer with when asked for analysis code.
JsonResponses == {
    <<"d","f",".","h","e","a","d","(","5",")">>,
    <<Backtick,Backtick,Backtick,"j","a","v","a","s","c","r","i","p","t","\n","d","f",".","d","e","s","c","r","i","b","e","(",")","\n",Backtick,Backtick,Backtick>>,
    <<Backtick,Backtick,Backtick,"\n","p","r","o","c","e","s","s",".","e","n","v","\n",Backtick,Backtick,Backtick,"\n">>,
    <<"r","e","q","u","i","r","e","(","'","f","s","'",")">>,
    <<" ","d","f","[","'","p","a","s","s","w","o","r","d","'","]"," ">> }

GeneratedCodes == {stripFences(r) : r \in JsonResponses}
                  \cup {codeNotText, codeFallback}

\* How compiling and running generated code may end.
ExecOutcomes == {"syntax", "throws", "throwsNullish", "array", "series",
                 "dataframe", "scalar"}

\* executeDataFrameCode: new Function with the code as the initializer of
\* result, and the normalisation of result in the function's body. An
\* error thrown by the code is answered as {error} by the inner catch,
\* a SyntaxError of new Function and a TypeError of the inner catch (the
\* code threw null or undefined) by the outer one.
executeDataFrameCode(ev, m) ==
    [ran    |-> ev # "syntax",
     result |-> CASE ev \in {"syntax", "throws", "throwsNullish"} ->
                       [kind |-> "error", values |-> <<>>]
                  [] ev = "array" ->
                       [kind |-> "array",
                        values |-> slice(Rows(m), 0, DisplayCap)]
                  [] ev = "series" ->
                       [kind |-> "Series",
                        values |-> slice(Rows(m), 0, SeriesCap)]
                  [] ev = "dataframe" ->
                       [kind |-> "DataFrame",
                        values |-> slice(Rows(m), 0, HeadRows)]
                  [] ev = "scalar" ->
                       [kind |-> "value", values |-> <<>>]]

\* The head of a loop that runs while cycle <= maxCycles.
StartCycleInclusive(cycle, maxCycles, initial) ==
    IF ~(cycle <= maxCycles)
    THEN jPc' = "report" /\ jSource' = None /\ jTodo' = 0
    ELSE IF cycle = 0 /\ initial > 0
    THEN jPc' = "code" /\ jSource' = "initial" /\ jTodo' = initial
    ELSE jPc' = "describe" /\ jSource' = "generated" /\ jTodo' = 0

\* The head of the cycle loop: the loop ends when cycle reaches
\* maxCycles; the first cycle runs the caller's descriptions when there
\* are any, and every other cycle asks the AI client for descriptions.
StartCycle(cycle, maxCycles, initial) ==
    IF ~(cycle < maxCycles)
    THEN jPc' = "report" /\ jSource' = None /\ jTodo' = 0
    ELSE IF cycle = 0 /\ initial > 0
    THEN jPc' = "code" /\ jSource' = "initial" /\ jTodo' = initial
    ELSE jPc' = "describe" /\ jSource' = "generated" /\ jTodo' = 0

\* The analyzeJsonData tool is called: loadJsonData and createDataFrame
\* (either may throw, and the catch block answers), then the loop.
AnalyzeJsonData(maxCycles, initial, loads) ==
    /\ jPc = "idle"
    /\ jMaxCycles' = maxCycles /\ jInitial' = initial
    /\ IF loads
       THEN StartCycle(0, maxCycles, initial) /\ jOut' = None
       ELSE /\ jPc' = "done" /\ jOut' = "error"
            /\ UNCHANGED <<jSource, jTodo>>
    /\ UNCHANGED <<jCycles, jCode, jRan, jResult, jReports>>
    /\ UNCHANGED <<mainVars, guardVars, codeVars, shapeVars, procVars>>

\* generateAnalysisDescriptions resolves with k descriptions.
GenerateAnalysisDescriptions(k) ==
    /\ jPc = "describe"
    /\ jTodo' = k
    /\ jPc' = IF k = 0 THEN "results" ELSE "code"
    /\ UNCHANGED <<jMaxCycles, jInitial, jCycles, jSource, jCode, jRan,
                   jResult, jReports, jOut>>
    /\ UNCHANGED <<mainVars, guardVars, codeVars, shapeVars, procVars>>

\* generateAnalysisCode resolves with code for the next description, and
\* executeDataFrameCode runs it at once.
GenerateAnalysisCode(generated, ev, m) ==
    /\ jPc = "code"
    /\ jCode' = generated
    /\ jRan' = executeDataFrameCode(ev, m).ran
    /\ jResult' = executeDataFrameCode(ev, m).result
    /\ jTodo' = jTodo - 1
    /\ jPc' = IF jTodo = 1 THEN "results" ELSE "code"
    /\ UNCHANGED <<jMaxCycles, jInitial, jCycles, jSource, jReports, jOut>>
    /\ UNCHANGED <<mainVars, guardVars, codeVars, shapeVars, procVars>>

\* shouldContinue of the analysis analyzeResults falls back to.
fallbackShouldContinue(cycle, maxCycles) ==
    IF cycle < maxCycles - 1 THEN "true" ELSE "false"

\* analyzeResults resolves with the AI client's analysis, whose
\* shouldContinue is "true", "false" or "absent", or with its "fallback";
\* the cycle is pushed, and the loop breaks or goes on.
AnalyzeResults(answer) ==
    /\ jPc = "results"
    /\ jCycles' = jCycles + 1
    /\ LET shouldContinue ==
               IF answer = "fallback"
               THEN fallbackShouldContinue(jCycles, jMaxCycles)
               ELSE answer
       IN  IF shouldContinue = "false" /\ jCycles >= 1
           THEN jPc' = "report" /\ jSource' = None /\ jTodo' = 0
           ELSE StartCycle(jCycles + 1, jMaxCycles, jInitial)
    /\ UNCHANGED <<jMaxCycles, jInitial, jCode, jRan, jResult, jReports,
                   jOut>>
    /\ UNCHANGED <<mainVars, guardVars, codeVars, shapeVars, procVars>>

\* generateFinalReport resolves, and the report text is put together;
\* this throws when a cycle's analysis has no keyFindings array, and the
\* catch block answers.
GenerateFinalReport(renders) ==
    /\ jPc = "report"
    /\ renders \/ jCycles > 0
    /\ jReports' = jReports + 1
    /\ jOut' = IF renders THEN "report" ELSE "error"
    /\ jPc' = "done"
    /\ UNCHANGED <<jMaxCycles, jInitial, jCycles, jSource, jTodo, jCode, jRan,
                   jResult>>
    /\ UNCHANGED <<mainVars, guardVars, codeVars, shapeVars, procVars>>

\* ------------------------------------------------------------------
\* Database.query and the shutdown handlers
\* ------------------------------------------------------------------
\* Clients connected and not released, over all pools.
Leases == leased["default"] + leased["dev"] + leased["prod"]

\* Database.query(query) is called: this.pools[this.currentPool].connect().
\* The method has no catch block: what is thrown rejects its promise.
DatabaseQuery(q) ==
    /\ shutdown # "exited"
    /\ pc = "idle"
    /\ Leases < MaxDbCalls
    /\ tool' = "Database.query" /\ query' = q /\ limit' = 0 /\ code' = <<>>
    /\ IF currentPool \in Envs
       THEN /\ client' = currentPool
            /\ nConnect' = nConnect + 1
            /\ pc' = "connect"
            /\ out' = out
       ELSE /\ out' = Rejected
            /\ pc' = "done"
            /\ UNCHANGED <<client, nConnect>>
    /\ UNCHANGED <<stmt, stored, nQuery, nRelease, leased, envVars, guardVars,
                   codeVars, shapeVars, jsonVars, procVars>>

\* connect() resolves with a client, and the query is passed to it.
DatabaseConnectResolves ==
    /\ shutdown # "exited"
    /\ pc = "connect"
    /\ leased[client] < PoolMax
    /\ leased' = [leased EXCEPT ![client] = @ + 1]
    /\ stmt' = query
    /\ nQuery' = nQuery + 1
    /\ pc' = "query"
    /\ UNCHANGED <<tool, query, limit, code, client, stored, nConnect,
                   nRelease, out, envVars, guardVars, codeVars, shapeVars,
                   jsonVars, procVars>>

\* connect() rejects.
DatabaseConnectRejects ==
    /\ shutdown # "exited"
    /\ pc = "connect"
    /\ out' = Rejected
    /\ pc' = "done"
    /\ UNCHANGED <<tool, query, limit, code, client, stmt, stored, nConnect,
                   nQuery, nRelease, leased, envVars, guardVars, codeVars,
                   shapeVars, jsonVars, procVars>>

\* client.query resolves with n rows: return result.rows. The client is
\* not mentioned again.
DatabaseQueryResolves(n) ==
    /\ shutdown # "exited"
    /\ pc = "query"
    /\ stored' = Rows(n)
    /\ out' = Envelope("result", Rows(n), n)
    /\ pc' = "done"
    /\ UNCHANGED <<tool, query, limit, code, client, stmt, nConnect, nQuery,
                   nRelease, leased, envVars, guardVars, codeVars, shapeVars,
                   jsonVars, procVars>>

\* client.query rejects: the method's promise rejects with the error.
DatabaseQueryRejects ==
    /\ shutdown # "exited"
    /\ pc = "query"
    /\ out' = Rejected
    /\ pc' = "done"
    /\ UNCHANGED <<tool, query, limit, code, client, stmt, stored, nConnect,
                   nQuery, nRelease, leased, envVars, guardVars, codeVars,
                   shapeVars, jsonVars, procVars>>

\* SIGINT or SIGTERM arrives: database.pools[database.currentPool].end()
\* is called and awaited. Under a name that is no pool, end is not a
\* function: the handler's promise rejects, and whether the process
\* goes on or exits depends on how the runtime treats the unhandled
\* rejection (exits).
Signal(exits) ==
    /\ shutdown \in {"running", "ending"}
    /\ IF currentPool \in Envs
       THEN /\ ended' = ended \cup {currentPool}
            /\ shutdown' = "ending"
       ELSE /\ ended' = ended
            /\ shutdown' = IF exits THEN "exited" ELSE shutdown
    /\ UNCHANGED <<mainVars, guardVars, codeVars, shapeVars, jsonVars>>

\* end() resolves, and the handler calls process.exit(0).
EndResolves ==
    /\ shutdown = "ending"
    /\ shutdown' = "exited"
    /\ UNCHANGED <<ended, mainVars, guardVars, codeVars, shapeVars, jsonVars>>

\* ------------------------------------------------------------------
\* Specifications
\* ------------------------------------------------------------------
MainInit ==
    /\ currentPool = "default"
    /\ timers = 0
    /\ envOut = None
    /\ leased = [e \in Envs |-> 0]
    /\ pc = "idle"
    /\ tool = None /\ query = <<>> /\ limit = 0 /\ code = <<>>
    /\ client = None /\ stmt = <<>> /\ stored = <<>>
    /\ nConnect = 0 /\ nQuery = 0 /\ nRelease = 0
    /\ out = NoOut
    /\ ended = {} /\ shutdown = "running"

Init == MainInit /\ GuardUnused /\ CodeUnused /\ ShapeUnused /\ JsonIdle

Next ==
    \/ \E q \in QueryArgs, l \in LimitArgs \cup {QueryDefaultLimit} :
          CallQuery(q, l)
    \/ \E q \in QueryArgs, c \in CodeArgs,
          l \in LimitArgs \cup {AnalyzeDefaultLimit} : CallAnalyze(q, c, l)
    \/ \E q \in QueryArgs, l \in LimitArgs \cup {AnalyzeDefaultLimit} :
          CallDataReport(q, l)
    \/ \E l \in LimitArgs \cup {AnalyzeDefaultLimit} : CallDataInsights(l)
    \/ \E text \in GeneratedTexts : GenerateResolves(text)
    \/ \E error \in {ErrUnsafeGenerated, ErrAI} : GenerateFails(error)
    \/ ConnectResolves
    \/ \E errCode \in ConnectErrorCodes : ConnectRejects(errCode)
    \/ \E errCode \in StoreErrorCodes : QueryRejects(errCode)
    \/ QueryResolvesNoRows
    \/ \E n \in 0..MaxRows, ev \in EvalOutcomes, m \in ResultLens :
          QueryResolves(n, ev, m)
    \/ AIResolves
    \/ AIRejects
    \/ Return
    \/ \E environment \in EnvArgs : SetEnvironment(environment)
    \/ TimerFires

Spec == Init /\ [][Next]_vars

\* The event loop runs the callback of a timer that is due.
FairSpec == Spec /\ WF_vars(TimerFires)

\* The tool handlers with analysis code whose evaluation may not return.
NextEval ==
    \/ Next
    \/ \E n \in 0..MaxRows : EvaluationDiverges(n)

\* What answers a suspended handler: the pool (connectionTimeoutMillis
\* bounds the wait for a connection), the store, and the AI client.
Answers ==
    \/ \E text \in GeneratedTexts : GenerateResolves(text)
    \/ \E error \in {ErrUnsafeGenerated, ErrAI} : GenerateFails(error)
    \/ ConnectResolves
    \/ \E errCode \in ConnectErrorCodes : ConnectRejects(errCode)
    \/ \E errCode \in StoreErrorCodes : QueryRejects(errCode)
    \/ QueryResolvesNoRows
    \/ \E n \in 0..MaxRows, ev \in EvalOutcomes, m \in ResultLens :
          QueryResolves(n, ev, m)
    \/ AIResolves
    \/ AIRejects

\* Every request a handler awaits is eventually answered.
FairCalls == Init /\ [][NextEval]_vars /\ WF_vars(Answers)

\* The Query Guard applied to every text of GuardTexts.
InitGuard == MainInit /\ CodeUnused /\ ShapeUnused /\ JsonIdle
             /\ gText \in GuardTexts /\ gVerdict = None
NextGuard == GuardClassify
SpecGuard == InitGuard /\ [][NextGuard]_vars

\* The Code Guard applied to every text of CodeTexts.
InitCode == MainInit /\ GuardUnused /\ ShapeUnused /\ JsonIdle
            /\ cCode \in CodeTexts \cup PresentedCodes
            /\ cVerdict = NoVerdict
NextCode == CodeClassify
SpecCode == InitCode /\ [][NextCode]_vars

\* Truncation applied twice to every result and every pair of caps.
InitShape == MainInit /\ GuardUnused /\ CodeUnused /\ JsonIdle
             /\ sRows \in {Rows(n) : n \in 0..MaxRows}
             /\ sCap \in PassedCaps /\ sCap2 \in PassedCaps
             /\ sOnce = <<>> /\ sTwice = <<>> /\ sPc = "start"
NextShape == ShapeOnce \/ ShapeTwice
SpecShape == InitShape /\ [][NextShape]_vars

\* The analyzeJsonData tool alone.
NextJson ==
    \/ \E maxCycles \in 0..MaxCycles, initial \in 0..MaxDescs,
          loads \in BOOLEAN : AnalyzeJsonData(maxCycles, initial, loads)
    \/ \E k \in 0..MaxDescs \cup {FallbackDescriptions} :
          GenerateAnalysisDescriptions(k)
    \/ \E generated \in GeneratedCodes, ev \in ExecOutcomes,
          m \in ResultLens : GenerateAnalysisCode(generated, ev, m)
    \/ \E answer \in {"true", "false", "absent", "fallback"} :
          AnalyzeResults(answer)
    \/ \E renders \in BOOLEAN : GenerateFinalReport(renders)
SpecJson == Init /\ [][NextJson]_vars

\* Every request analyzeJsonData awaits is answered, and the code it runs
\* returns.
FairJson == SpecJson /\ WF_vars(NextJson)

\* Database.query, environment selection and the shutdown handlers.
NextDb ==
    \/ \E q \in {qGood, qNotReadOnly} : DatabaseQuery(q)
    \/ DatabaseConnectResolves
    \/ DatabaseConnectRejects
    \/ \E n \in 0..MaxRows : DatabaseQueryResolves(n)
    \/ DatabaseQueryRejects
    \/ Return
    \/ \E environment \in EnvArgs : SetEnvironment(environment)
    \/ TimerFires
    \/ \E exits \in BOOLEAN : Signal(exits)
    \/ EndResolves
SpecDb == Init /\ [][NextDb]_vars

\* ------------------------------------------------------------------
\* Properties
\* ------------------------------------------------------------------
ReadOnlyKeywords == { <<"s","e","l","e","c","t">>, <<"w","i","t","h">>, <<"e","x","p","l","a","i","n">> }

\* After some leading white space, text continues with kw in any case.
KeywordAfterBlanks(text, kw) ==
    \E k \in 0..Len(text) :
        /\ \A i \in 1..k : text[i] \in WhiteSpace
        /\ k + Len(kw) <= Len(text)
        /\ \A j \in 1..Len(kw) : toLowerCaseChar(text[k + j]) = kw[j]

\* w occurs in text at some position, in any case.
OccursIgnoringCase(text, w) ==
    \E i \in 0..(Len(text) - Len(w)) :
        \A j \in 1..Len(w) : toLowerCaseChar(text[i + j]) = w[j]

PassesQueryGuard(text) ==
    /\ \E kw \in ReadOnlyKeywords : KeywordAfterBlanks(text, kw)
    /\ OccursIgnoringCase(text, <<"l","i","m","i","t">>)

\* C1: the Query Guard accepts a text if and only if, leading white space
\* and case aside, it starts with select, with or explain and "limit"
\* occurs in it anywhere, in any case; every other text is rejected.
QueryGuardAcceptsIff ==
    gVerdict # None =>
        /\ gVerdict \in {"Accepted", "NotReadOnly", "MissingBound"}
        /\ (gVerdict = "Accepted") <=> PassesQueryGuard(gText)

\* C1 witness: an upper-case SELECT after a line break whose only "limit"
\* is inside a quoted literal is accepted.
QueryGuardAcceptsQuotedLimit ==
    /\ gVerdict = "Accepted"
    /\ gText = <<"\n">> \o <<"S","E","L","E","C","T">> \o <<"'","l","i","m","i","t","'">>

\* C2: every text passed to client.query, by any tool, has a read-only
\* keyword prefix and contains "limit"; for dataInsights this is the text
\* with " LIMIT <limit>" appended when the generated query lacked it.
ExecutedStatementsGuarded ==
    nQuery > 0 => PassesQueryGuard(stmt)

\* C2 witness: dataInsights executed a generated query to which it had to
\* append the LIMIT.
ExecutedWithAppendedLimit ==
    /\ tool = "dataInsights"
    /\ nQuery = 1
    /\ stmt # query
    /\ ~OccursIgnoringCase(query, <<"l","i","m","i","t">>)

WriteKeywords == { <<"d","e","l","e","t","e">>, <<"i","n","s","e","r","t">>, <<"u","p","d","a","t","e">>, <<"d","r","o","p">> }

\* C3: no text passed to client.query contains a data-modifying
\* operation.
NoWriteReachesPool ==
    nQuery > 0 => \A kw \in WriteKeywords : ~OccursIgnoringCase(stmt, kw)

\* C4: a call holds its connection from the moment connect() resolves
\* until it returns, and has released it exactly once when it returns, on
\* every exit path; no pool has a leased connection when no call is in
\* flight.
LeaseReleasedExactlyOnce ==
    /\ pc \in {"idle", "done"} => \A e \in Envs : leased[e] = 0
    /\ pc = "done" => nRelease = nQuery /\ nRelease <= 1
    /\ pc \in {"query", "ai"} => leased[client] = 1 /\ nRelease = 0

\* C4 witness: an analyze call whose analysis code threw has returned its
\* error envelope with the connection released once.
ReleasedAfterEvaluationError ==
    /\ pc = "done"
    /\ tool = "analyze"
    /\ out.kind = "error"
    /\ out.msg.message = ErrEvaluation.message
    /\ nQuery = 1
    /\ nRelease = 1

\* C5: in every tool a cap above the hard ceiling is rejected with an
\* error and no statement is executed.
CapAboveCeilingRejected ==
    (pc # "idle" /\ limit > HardCeiling) =>
        /\ nQuery = 0
        /\ pc = "done" => out.kind = "error"

\* C6: the query and analyze paths return the first min(cap, 5000,
\* totalAvailable) rows of the store's result (no rows when that minimum
\* is negative) and report the store's row count as the total.
RowsAreMinOfCapCeilingTotal ==
    (pc = "done" /\ tool \in {"query", "analyze"} /\ out.kind = "result") =>
        /\ Len(out.rows) = Max(0, Min(Min(limit, HardCeiling), Len(stored)))
        /\ out.rows = SubSeq(stored, 1, Len(out.rows))
        /\ out.total = Len(stored)

IsRowSet == pc = "done" /\ tool \in {"query", "analyze"} /\ out.kind = "result"

IsPrefix(s, t) == Len(s) <= Len(t) /\ s = SubSeq(t, 1, Len(s))

\* C8: truncating a truncated row sequence again with an equal or larger
\* cap returns it unchanged, and with a smaller cap returns a prefix of
\* it.
TruncationIdempotentMonotonic ==
    sPc = "twice" =>
        /\ sCap2 >= sCap => sTwice = sOnce
        /\ sCap2 < sCap => IsPrefix(sTwice, sOnce)

\* The denylist as the claims state it: per entry, in list order, the
\* texts whose occurrence the entry forbids and the name reported.
DenyList == <<
    [texts |-> { <<"p","r","o","c","e","s","s",".","e","n","v">> },    name |-> "process.env access"],
    [texts |-> { <<"r","e","q","u","i","r","e","(">> },       name |-> "require() function"],
    [texts |-> { <<"i","m","p","o","r","t"," ">>, <<"i","m","p","o","r","t","\t">>, <<"i","m","p","o","r","t","\n">> },
                                       name |-> "import statements"],
    [texts |-> { <<"e","v","a","l","(">> },          name |-> "eval() function"],
    [texts |-> { <<"F","u","n","c","t","i","o","n","(">> },      name |-> "Function constructor"],
    [texts |-> { <<"s","e","t","T","i","m","e","o","u","t","(">> },    name |-> "setTimeout() function"],
    [texts |-> { <<"s","e","t","I","n","t","e","r","v","a","l","(">> },   name |-> "setInterval() function"],
    [texts |-> { <<"g","l","o","b","a","l",".">> },        name |-> "global object access"],
    [texts |-> { <<"w","i","n","d","o","w",".">> },        name |-> "window object access"],
    [texts |-> { <<"d","o","c","u","m","e","n","t",".">> },      name |-> "document object access"],
    [texts |-> { <<"f","e","t","c","h","(">> },         name |-> "fetch() function"],
    [texts |-> { <<"X","M","L","H","t","t","p","R","e","q","u","e","s","t">> }, name |-> "XMLHttpRequest"],
    [texts |-> { <<"h","t","t","p">> },           name |-> "http is not allowed"],
    [texts |-> { <<".","q","u","e","r","y","(">> },        name |-> "query() method calls"],
    [texts |-> { <<".","c","o","n","n","e","c","t","(">> },      name |-> "connect() method calls"],
    [texts |-> { <<".","p","o","o","l">> },          name |-> "pool property access"],
    [texts |-> { <<"p","g",".">> },            name |-> "pg module access"],
    [texts |-> { <<"p","o","s","t","g","r","e","s">> },       name |-> "postgres references"],
    [texts |-> { <<"d","a","t","a","b","a","s","e">> },       name |-> "database references"],
    [texts |-> { <<"r","e","a","d","C","S","V">> },        name |-> "readCSV is not allowed"],
    [texts |-> { <<"p","a","s","s","w","o","r","d">> },       name |-> "password is not allowed"] >>

Denied(k, text) == \E w \in DenyList[k].texts : includes(text, w)

\* C9: isSafeAnalysisCode answers safe=false if and only if one of the 21
\* denylisted patterns occurs anywhere in the code, comments and string
\* literals included, and safe=true otherwise.
CodeGuardRejectsIff ==
    cVerdict # NoVerdict =>
        /\ Len(dangerousPatterns) = 21
        /\ cVerdict.safe <=> ~(\E k \in 1..Len(DenyList) : Denied(k, cCode))

\* C9 witness: code whose only denylisted text is inside a comment is
\* rejected.
CodeGuardRejectsComment ==
    /\ cCode = <<"/","/">> \o <<"p","r","o","c","e","s","s",".","e","n","v">>
    /\ cVerdict # NoVerdict
    /\ ~cVerdict.safe

\* C10: the blockedPattern reported is the name of the matching pattern
\* that comes first in the list, wherever the matches are in the code.
BlockedPatternIsFirstListed ==
    (cVerdict # NoVerdict /\ ~cVerdict.safe) =>
        \E k \in 1..Len(DenyList) :
            /\ Denied(k, cCode)
            /\ \A m \in 1..(k - 1) : ~Denied(m, cCode)
            /\ cVerdict.blockedPattern = DenyList[k].name

\* C10 witness: "password" comes before "eval(" in the code and after it
\* in the list, and eval() is the pattern reported.
BlockedPatternNotFirstInText ==
    /\ cCode = <<"p","a","s","s","w","o","r","d">> \o <<"e","v","a","l","(">>
    /\ cVerdict # NoVerdict
    /\ cVerdict.blockedPattern = "eval() function"

\* ------------------------------------------------------------------
\* Evaluation of analysis code
\* ------------------------------------------------------------------
\* The analyze call in flight compiled and ran its code: the store
\* answered with rows.
AnalyzeEvaluated ==
    tool = "analyze" /\ pc = "done" /\ nQuery = 1 /\ Len(stored) > 0

\* The analyze tool alone: the code it ran had passed the Code Guard.
AnalyzeEvaluatesGuardedCode ==
    AnalyzeEvaluated => isSafeAnalysisCode(code).safe

\* C11: code that new Function has evaluated, in the analyze tool or in
\* JsonAnalyzer.executeDataFrameCode, is code the Code Guard accepts.
EvaluatedCodeGuarded ==
    /\ AnalyzeEvaluated => isSafeAnalysisCode(code).safe
    /\ jRan => isSafeAnalysisCode(jCode).safe

\* ------------------------------------------------------------------
\* Rejection before the store
\* ------------------------------------------------------------------
\* The messages of the Query Guard, the cap check and the Code Guard.
GuardRejections ==
    {ErrNotReadOnly.message, ErrMissingLimit.message,
     ErrLimitExceeded.message, ErrBlocked(None).message}

GuardRejected ==
    /\ pc = "done"
    /\ tool \in {"query", "analyze", "dataReport"}
    /\ out.kind = "error"
    /\ out.msg.message \in GuardRejections

\* C12: a query, analyze or dataReport call rejected by the Query Guard,
\* the cap check or the Code Guard has not called pool.connect, holds no
\* client and has executed no statement.
RejectedBeforeConnect ==
    GuardRejected =>
        /\ nConnect = 0 /\ client = None
        /\ nQuery = 0 /\ stmt = <<>>
        /\ nRelease = 0

\* An analyze call with an accepted query is rejected by the Code Guard.
RejectedByCodeGuard ==
    /\ GuardRejected
    /\ tool = "analyze"
    /\ QueryGuard(query) = "Accepted"
    /\ out.msg.detail = "process.env access"
    /\ nConnect = 0

\* ------------------------------------------------------------------
\* Environment selection and revert
\* ------------------------------------------------------------------
\* C13: setEnvironment with a name that is not a registered environment
\* returns the error envelope, leaves the current environment as it was
\* and sets no revert timer.
UnknownEnvironmentRejected ==
    [][\A environment \in EnvArgs \ Envs :
          SetEnvironment(environment) =>
              /\ envOut' = "error"
              /\ currentPool' = currentPool
              /\ timers' = timers]_vars

\* C14: the current environment is always one of "default", "dev",
\* "prod", whatever names setEnvironment was called with.
CurrentPoolRegistered == currentPool \in Envs

\* C15: at most one revert timer is pending at any moment.
AtMostOneRevertPending == timers <= 1

\* C16: a revert that fires while the timer of a later selection is still
\* pending (that selection's dwell window has not elapsed) does not
\* change the current environment.
ReselectingResetsCountdown ==
    [][(TimerFires /\ timers' > 0) => currentPool' = currentPool]_vars

CapInRange == limit \in 0..HardCeiling

\* C18: a tool call that has ended has returned an envelope, a result or
\* an error text; its promise has not rejected (stated for caps in range).
HandlersReturnEnvelope ==
    (pc = "done" /\ CapInRange) =>
        out.kind \in {"result", "empty", "nostruct", "report", "error"}

\* The table of the claim: the category of each store error code.
StatedCategory(errCode) ==
    CASE errCode = "42P01" -> "Table not found"
      [] errCode = "42703" -> "Column not found"
      [] errCode = "42601" -> "SQL syntax error"
      [] errCode \in {"28P01", "28000"} -> "Authentication error"
      [] errCode = "23505" -> "Unique constraint violation"
      [] errCode = "23503" -> "Foreign key constraint violation"
      [] OTHER -> "Database error (code)"

\* C19: an error with a code, surfaced by the query tool or the analyze
\* tool, carries the category the one table gives to its code, and the
\* code itself (stated for caps in range).
StoreErrorsClassified ==
    (pc = "done" /\ tool \in {"query", "analyze"} /\ out.kind = "error"
         /\ out.msg.code # None /\ CapInRange) =>
        out.msg.category = StatedCategory(out.msg.code)

\* C20: an array that analysis code returned is shown with at most
\* DisplayCap elements, by the analyze tool (stated for caps in range)
\* and by executeDataFrameCode.
AnalysisResultCapped ==
    /\ (pc = "done" /\ tool = "analyze" /\ out.kind = "result"
            /\ CapInRange) =>
           Len(out.result) <= DisplayCap
    /\ jResult.kind = "array" => Len(jResult.values) <= DisplayCap

\* ------------------------------------------------------------------
\* The pool of a call
\* ------------------------------------------------------------------
\* C21: the pool of a call is the one current when it called connect();
\* it does not change while the call is in flight, whatever setEnvironment
\* and the revert timers do; the statement is executed on a client of
\* that pool, and release gives the client back to that pool.
PoolCapturedAtLease ==
    /\ [](pc \in {"query", "ai"} =>
             leased = [e \in Envs |-> IF e = client THEN 1 ELSE 0])
    /\ [](pc \in {"idle", "generate", "connect", "done"} =>
             leased = [e \in Envs |-> 0])
    /\ [][nConnect' = nConnect + 1 => client' = currentPool]_vars
    /\ [][(pc # "idle" /\ pc' # "idle" /\ nConnect = 1) =>
             client' = client]_vars

\* A call has its statement running on the pool it leased from, and the
\* current environment is another one by now.
EnvironmentChangedInFlight ==
    /\ pc = "query"
    /\ client = "prod"
    /\ currentPool = "default"
    /\ leased["prod"] = 1

\* C22: every analysis code the program presents as valid (each usage
\* example of the analyze tool description, and the analysisCode of each
\* dataEngineeringTask task that calls the analyze handler) passes
\* isSafeAnalysisCode.
PresentedCodeAccepted ==
    (cCode \in PresentedCodes /\ cVerdict # NoVerdict) => cVerdict.safe

\* The same for the usage examples alone, and for the task codes alone.
UsageExampleAccepted ==
    (cCode \in UsageExamples /\ cVerdict # NoVerdict) => cVerdict.safe
TaskCodeAccepted ==
    (cCode \in TaskCodes /\ cVerdict # NoVerdict) => cVerdict.safe

\* The presented codes the Code Guard rejects, with the pattern it names.
PresentedCodeVerdicts ==
    (cCode \in PresentedCodes /\ cVerdict # NoVerdict) =>
        /\ cVerdict.safe <=>
               cCode \in {exampleBasicCount, exampleBasicMap, exampleDescribe,
                          exampleGrouping, exampleCorr,
                          analysisCode_analyze_schema,
                          analysisCode_explore_dependencies}
        /\ ~cVerdict.safe => cVerdict.blockedPattern = "query() method calls"

\* A tool call in flight: asked for, and its handler has not returned.
InFlight == pc \notin {"idle", "done"}

\* C23: every tool call eventually returns a result value and has then
\* released the connection it leased, provided every request it awaits
\* is answered.
CallsReturnAndRelease ==
    /\ InFlight ~> (pc = "done" /\ out # NoOut)
    /\ [](pc = "done" => leased = [e \in Envs |-> 0])

\* The handler has returned the envelope of a failed connect().
LeaseFailed ==
    /\ pc = "done"
    /\ out.kind = "error"
    /\ out.msg.message = "connect failed"

\* C24: when connect() rejects, the call returns an error envelope, has
\* called release zero times, executed no statement and called connect
\* once, and the current environment and the leased counts are as they
\* were; a call waiting for connect() does not wait forever.
LeaseFailureIsClean ==
    /\ [][(pc = "connect" /\ pc' = "done") =>
             /\ out'.kind = "error"
             /\ nRelease' = 0 /\ nQuery' = 0 /\ nConnect' = 1
             /\ stmt' = <<>> /\ stored' = <<>>
             /\ currentPool' = currentPool
             /\ leased' = leased]_vars
    /\ [](LeaseFailed =>
             /\ nRelease = 0 /\ nQuery = 0 /\ nConnect = 1
             /\ leased = [e \in Envs |-> 0])
    /\ (pc = "connect") ~> (pc # "connect")

\* C24 witness: the pool's connect timeout (an Error without code) has
\* been answered with an error envelope while "prod" is selected.
LeaseTimedOutReturned ==
    /\ LeaseFailed
    /\ out.msg.code = None
    /\ client = "prod" /\ currentPool = "prod"
    /\ nConnect = 1 /\ nRelease = 0

\* C25: a tool call calls connect() at most once and client.query at most
\* once, whatever fails: a statement is passed only after the one
\* connect(), and a call that has returned an error has not repeated
\* either.
NoRetry ==
    /\ nConnect \in {0, 1}
    /\ nQuery \in {0, 1}
    /\ nQuery <= nConnect
    /\ (pc = "done" /\ out.kind \in {"error", "rejected"}) =>
           (nConnect <= 1 /\ nQuery <= 1 /\ nRelease = nQuery)

\* C25 witness: a statement the store rejected was passed once, on the
\* one connection asked for, and the error envelope is returned.
StoreErrorNotRetried ==
    /\ pc = "done"
    /\ out.kind = "error"
    /\ out.msg.message = "statement failed"
    /\ nConnect = 1 /\ nQuery = 1

\* ------------------------------------------------------------------
\* Order of the rejections
\* ------------------------------------------------------------------
\* The rejections in the stated order of priority.
StatedPriority ==
    <<"Query parameter is required",
      "Only SELECT, WITH, and EXPLAIN queries are allowed",
      "All queries must include a LIMIT clause",
      "Limit cannot exceed 5000 rows",
      "Analysis code contains potentially dangerous patterns">>

\* The request fails the k-th check, taken on its own.
CheckFails(k, t, q, l, c) ==
    CASE k = 1 -> t = "query" /\ q = <<>>
      [] k = 2 -> ~\E kw \in ReadOnlyKeywords : KeywordAfterBlanks(q, kw)
      [] k = 3 -> ~OccursIgnoringCase(q, <<"l","i","m","i","t">>)
      [] k = 4 -> l > 5000
      [] k = 5 -> t = "analyze" /\ \E j \in 1..Len(DenyList) : Denied(j, c)

FailedChecks ==
    {k \in 1..Len(StatedPriority) : CheckFails(k, tool, query, limit, code)}

\* C26: a request that fails several checks is rejected with the message
\* of the failed check that comes first in the order: missing query text
\* (query tool), not read-only, missing LIMIT, cap above 5000, Code Guard
\* (analyze); a request that fails none is not rejected by a check.
RejectionFollowsCheckOrder ==
    (pc = "done" /\ tool \in {"query", "analyze", "dataReport"}) =>
        IF FailedChecks = {}
        THEN out.kind = "error" =>
                 out.msg.message \notin
                     {StatedPriority[k] : k \in 1..Len(StatedPriority)}
        ELSE /\ out.kind = "error"
             /\ out.msg.message =
                    StatedPriority[CHOOSE k \in FailedChecks :
                                       \A j \in FailedChecks : k <= j]
             /\ nConnect = 0

\* C26 witness: an analyze call whose query is neither read-only nor
\* bounded, whose cap is above 5000 and whose code is denylisted is
\* rejected as not read-only.
ManyFailuresOneRejection ==
    /\ pc = "done" /\ tool = "analyze"
    /\ FailedChecks = {2, 3, 4, 5}
    /\ out.kind = "error"
    /\ out.msg.message = StatedPriority[2]

\* ------------------------------------------------------------------
\* Analysis of an empty result
\* ------------------------------------------------------------------
\* What a returned analyze call shows of an evaluation: the analysis
\* result in a success envelope, or the error of the code or of its
\* serialization.
ShowsEvaluation ==
    \/ out.kind \in {"result", "rejected"}
    \/ /\ out.kind = "error"
       /\ out.msg.message \in {"analysis code threw", "JSON.stringify threw"}

\* The store answered the analyze call in flight with zero rows or with
\* no rows structure.
AnalyzeGotNoRows ==
    /\ tool = "analyze" /\ pc = "done" /\ nQuery = 1
    /\ out.kind \in {"empty", "nostruct"}

\* C27: the analyze tool does not evaluate its code when the store
\* answers with zero rows or without a rows structure: the call returns
\* the no-rows message, and the connection it leased is released.
EmptyResultNotEvaluated ==
    (tool = "analyze" /\ pc = "done" /\ nQuery = 1) =>
        /\ stored = <<>> =>
               /\ ~ShowsEvaluation
               /\ out.result = <<>>
               /\ out.kind = "error" => out.msg.message = "statement failed"
               /\ nRelease = 1
               /\ leased = [e \in Envs |-> 0]
        /\ ShowsEvaluation => Len(stored) > 0

\* C27 witness: zero rows came back on the "prod" connection, the no-rows
\* message is returned and the connection is released.
NoRowsReturnedAndReleased ==
    /\ AnalyzeGotNoRows
    /\ out.kind = "empty"
    /\ client = "prod"
    /\ nRelease = 1 /\ leased["prod"] = 0

\* ------------------------------------------------------------------
\* The cycle loop of analyzeJsonData
\* ------------------------------------------------------------------
\* loadJsonData or createDataFrame threw: the call ended before the loop.
LoadFailed == jPc = "done" /\ jOut = "error" /\ jCycles = 0 /\ jReports = 0

DatabaseQueryReleases ==
    /\ (tool = "Database.query" /\ pc = "done" /\ nQuery = 1) => nRelease = 1
    /\ pc \in {"idle", "done"} => leased = [e \in Envs |-> 0]

\* ------------------------------------------------------------------
\* Shutdown
\* ------------------------------------------------------------------
\* C30: when the process exits on SIGINT or SIGTERM, end() has been
\* called on the pool of every environment (taken where the current
\* name is a registered environment).
AllPoolsEndedAtExit ==
    (shutdown = "exited" /\ currentPool \in Envs) => ended = Envs
====
